---- MODULE Spec2Model ----
(***************************************************************************)
(* compilecmp -fn: the streaming function-level diff of two `go build -S`  *)
(* dumps (dashs.go) and the size table it feeds (main.go, filesizes).      *)
(*                                                                         *)
(* Text is modelled at the byte level: a line is a sequence of one-char    *)
(* strings, a stream is the sequence of lines bufio.Scanner hands out.     *)
(* Go indexes from 0; the Go* helpers below take Go indexes.               *)
(***************************************************************************)
EXTENDS Integers, Sequences, FiniteSets, TLC

\* ------------------------------------------------------------------ bounds
\* Packages per input stream.
MaxPkgs == 2
\* Largest textsize of a function handed to the diff reporter on its own.
MaxSize == 2
\* Fields (after the name) of a summary header handed to extractNameAndSize.
MaxFields == 3
\* The most calls of sizes.add on one table.
MaxAdds == 3
\* Pieces of the instruction line of a function body handed to the scanners.
MaxPieces == 3
\* Dump and relocation lines after that instruction line.
MaxNoise == 1
\* The largest -n.
MaxCount == 2
\* Commits made after the one beforeRef names.
MaxRevs == 3
\* Bytes of a name handed to splitPkgFnname.
MaxName == 5
\* Lines of the -S output handed to one scanner on its own.
MaxLines == 4
\* Commits of the repository, and moves of a ref during one run.
MaxShas == 3
MaxMoves == 2
\* Directories of ~/.compilecmp of any kind.
MaxDirs == 3
\* `gate := make(chan bool, 10)`
GateCap == 10

\* ----------------------------------------------------------- byte strings
SP == " "
TAB == "\t"
Digits == <<"0", "1", "2", "3", "4", "5", "6", "7", "8", "9">>

IsDigit(c) == \E i \in 1..10 : Digits[i] = c
DigitVal(c) == (CHOOSE i \in 1..10 : Digits[i] = c) - 1

\* s[lo:hi] is legal in Go iff 0 <= lo <= hi <= len(s); otherwise it panics.
SliceOK(s, lo, hi) == 0 <= lo /\ lo <= hi /\ hi <= Len(s)
GoSlice(s, lo, hi) == SubSeq(s, lo + 1, hi)

\* strings.Index / bytes.Index: the first Go index of sub in s, or -1.
IndexHits(s, sub) == {i \in 0..(Len(s) - Len(sub)) : GoSlice(s, i, i + Len(sub)) = sub}
FirstOr(hits) == IF hits = {} THEN -1 ELSE CHOOSE i \in hits : \A j \in hits : i <= j
Index(s, sub) == FirstOr(IndexHits(s, sub))

Contains(s, sub) == Index(s, sub) >= 0

HasPrefix(s, p) == Len(s) >= Len(p) /\ SubSeq(s, 1, Len(p)) = p
TrimPrefix(s, p) == IF HasPrefix(s, p) THEN SubSeq(s, Len(p) + 1, Len(s)) ELSE s

\* bytes.ReplaceAll(b, old, new) for a non-empty old: left to right,
\* non-overlapping.
RECURSIVE ReplaceFrom(_, _, _, _)
ReplaceFrom(b, old, new, i) ==
  IF i < 0 THEN b
  ELSE GoSlice(b, 0, i) \o new
       \o ReplaceFrom(GoSlice(b, i + Len(old), Len(b)), old, new,
                      Index(GoSlice(b, i + Len(old), Len(b)), old))
ReplaceAll(b, old, new) == ReplaceFrom(b, old, new, Index(b, old))

\* strconv.Itoa for n >= 0 (used to write the inputs).
RECURSIVE Itoa(_)
Itoa(n) == IF n < 10 THEN <<Digits[n + 1]>> ELSE Itoa(n \div 10) \o <<Digits[(n % 10) + 1]>>

\* The value of a non-empty all-digit string.
RECURSIVE DecVal(_)
DecVal(ds) ==
  IF Len(ds) = 0 THEN 0
  ELSE 10 * DecVal(SubSeq(ds, 1, Len(ds) - 1)) + DigitVal(ds[Len(ds)])

\* strconv.Atoi: an optional sign, then one or more decimal digits.  (The
\* range error of a number wider than an int needs 19 digits; the strings of
\* the model are shorter.)
AtoiDigits(neg, ds) ==
  IF Len(ds) = 0 \/ \E i \in 1..Len(ds) : ~IsDigit(ds[i])
  THEN [err |-> TRUE, n |-> 0]
  ELSE [err |-> FALSE, n |-> IF neg THEN 0 - DecVal(ds) ELSE DecVal(ds)]
Atoi(s) ==
  IF Len(s) > 0 /\ s[1] \in {"+", "-"} THEN AtoiDigits(s[1] = "-", Tail(s))
  ELSE AtoiDigits(FALSE, s)

\* ------------------------------------------------------ extractNameAndSize
KwSTEXT == <<" ", "S", "T", "E", "X", "T", " ">>
KwSize == <<" ", "s", "i", "z", "e", "=">>

\* How a call ends: "ok" (it returns), "check" (check(err) sees an error and
\* log.Panic()s), "crash" (a runtime panic: slice bounds or index out of
\* range).  Either panic, unrecovered, ends the whole process.
\* n, err := strconv.Atoi(stext); check(err); return name, n
extractAtoi(name, a) ==
  IF a.err THEN [out |-> "check"] ELSE [out |-> "ok", name |-> name, size |-> a.n]
\* i = strings.Index(stext, " "); stext = stext[:i]
extractField(name, s2, i3) ==
  IF ~SliceOK(s2, 0, i3) THEN [out |-> "crash"]
  ELSE extractAtoi(name, Atoi(GoSlice(s2, 0, i3)))
\* i = strings.Index(stext, " size="); stext = stext[i+len(" size="):]
extractSize(name, s1, i2) ==
  IF ~SliceOK(s1, i2 + Len(KwSize), Len(s1)) THEN [out |-> "crash"]
  ELSE extractField(name, GoSlice(s1, i2 + Len(KwSize), Len(s1)),
                    Index(GoSlice(s1, i2 + Len(KwSize), Len(s1)), <<SP>>))
\* name := stext[:i]; stext = stext[i:]
extractName(stext, i1) ==
  IF ~SliceOK(stext, 0, i1) THEN [out |-> "crash"]
  ELSE extractSize(GoSlice(stext, 0, i1), GoSlice(stext, i1, Len(stext)),
                   Index(GoSlice(stext, i1, Len(stext)), KwSize))
\* i := strings.IndexByte(stext, ' ')
extractNameAndSize(stext) == extractName(stext, Index(stext, <<SP>>))

\* ------------------------------------------------------------- pkgScanner
\* A Go map as a function; its keys are byte strings.
EmptyMap == <<>>
MapPut(m, k, v) == [y \in (DOMAIN m) \cup {k} |-> IF y = k THEN v ELSE m[y]]
MapDel(m, k) == [y \in (DOMAIN m) \ {k} |-> m[y]]

\* var pkgscan *pkgScanner
NilPkg == [nil |-> TRUE, Name |-> <<>>, Funcs |-> EmptyMap, Hash |-> <<>>, stext |-> <<>>]

\* Fault: the package named by its whole marker line.
NewPkgScannerWholeLine(b) ==
  [nil |-> FALSE, Name |-> b, Funcs |-> EmptyMap, Hash |-> <<>>, stext |-> <<>>]
\* &pkgScanner{Name: string(b[2:]), Funcs: make(map), Hash: sha256.New()}
NewPkgScanner(b) ==
  [nil |-> FALSE, Name |-> GoSlice(b, 2, Len(b)), Funcs |-> EmptyMap,
   Hash |-> <<>>, stext |-> <<>>]

\* The digest of the bytes written since the last Reset.  sha256 is modelled
\* as injective: the digest is the sequence of lines written (each line is
\* followed by "\n" in the code, so the line sequence determines the bytes).
HashSum(h) == h

\* Fault: flush without s.Hash.Reset().
flushKeepsHash(s) == [s EXCEPT !.stext = <<>>]
\* s.Hash.Reset(); s.stext = ""
flushReset(s) == [s EXCEPT !.Hash = <<>>, !.stext = <<>>]
\* s.Funcs[name] = stextFunc{textsize: size, bodyhash: s.Hash.Sum(nil)}
flushStore(s, r) ==
  IF r.out # "ok" THEN [out |-> r.out, s |-> s]
  ELSE [out |-> "ok",
        s |-> flushReset([s EXCEPT !.Funcs =
                MapPut(@, r.name, [textsize |-> r.size, bodyhash |-> HashSum(s.Hash)])])]
\* (s *pkgScanner) flush
flush(s) ==
  IF s.stext # <<>> /\ Contains(s.stext, KwSTEXT)
  THEN flushStore(s, extractNameAndSize(s.stext))
  ELSE [out |-> "ok", s |-> flushReset(s)]

\* s.stext = string(b), after the flush
setStext(f, b) == IF f.out # "ok" THEN f ELSE [out |-> "ok", s |-> [f.s EXCEPT !.stext = b]]
\* (s *pkgScanner) ProcessLine, for a non-empty line b
ProcessLine(s, b) ==
  IF b[1] # TAB THEN setStext(flush(s), b)
  ELSE [out |-> "ok", s |-> [s EXCEPT !.Hash = Append(@, b)]]

\* -------------------------------------------------------------- scanDashS
EOFMarker == <<"#", " ", "E", "O", "F">>
ShaPlaceholder == <<"S", "H", "A">>

\* Fault: the reader without the synthetic end marker.
WithEOFNoMarker(lines) == lines
\* io.MultiReader(r, "\n# EOF\n") as bufio.Scanner's lines.
WithEOF(lines) == lines \o << <<>>, EOFMarker >>

\* The test for a "# pkgname" line.  guarded: `len(b) >= 2 && b[0] == '#' &&
\* b[1] == ' '`; unguarded: `b[0] == '#' && b[1] == ' '`, which indexes b[1]
\* of a one-byte line "#" and panics.
IsPkgLine(b, guarded) ==
  IF guarded
  THEN IF Len(b) >= 2 /\ b[1] = "#" /\ b[2] = SP THEN "yes" ELSE "no"
  ELSE IF b[1] # "#" THEN "no"
       ELSE IF Len(b) < 2 THEN "crash"
       ELSE IF b[2] = SP THEN "yes" ELSE "no"

\* `pkgscan.flush(); c <- pkgscan`
scanSend(f) == [ev |-> IF f.out = "ok" THEN "send" ELSE f.out, pkgscan |-> f.s]
\* `pkgscan.ProcessLine(b)`
scanProcess(p) == [ev |-> IF p.out = "ok" THEN "next" ELSE p.out, pkgscan |-> p.s]
\* Fault: the line reaches ProcessLine with the build's sha still in it.
scanKindNoReplace(m, b, sha, pkgscan) ==
  IF m = "crash" THEN [ev |-> "crash", pkgscan |-> pkgscan]
  ELSE IF m = "yes"
  THEN IF ~pkgscan.nil THEN scanSend(flush(pkgscan))
       ELSE [ev |-> "next", pkgscan |-> NewPkgScanner(b)]
  ELSE IF ~pkgscan.nil
       THEN scanProcess(ProcessLine(pkgscan, b))
       ELSE [ev |-> "next", pkgscan |-> pkgscan]
scanKind(m, b, sha, pkgscan) ==
  IF m = "crash" THEN [ev |-> "crash", pkgscan |-> pkgscan]
  ELSE IF m = "yes"
  THEN IF ~pkgscan.nil THEN scanSend(flush(pkgscan))
       ELSE [ev |-> "next", pkgscan |-> NewPkgScanner(b)]
  ELSE IF ~pkgscan.nil
       THEN scanProcess(ProcessLine(pkgscan, ReplaceAll(b, sha, ShaPlaceholder)))
       ELSE [ev |-> "next", pkgscan |-> pkgscan]
\* The body of `for scan.Scan()` for one line b: "next" (on to the next
\* line), "send" (a package line ended the package in progress: it is
\* flushed and the goroutine stands at `c <- pkgscan`), or a panic ("check",
\* "crash").
scanLine(b, sha, guarded, pkgscan) ==
  IF Len(b) = 0 THEN [ev |-> "next", pkgscan |-> pkgscan]
  ELSE scanKind(IsPkgLine(b, guarded), b, sha, pkgscan)

\* The scanner goroutine from line pos (1-based) of rr up to its next
\* blocking point: "send" (pos is the package line that ended the package),
\* "close" (end of input: check(scan.Err()), close(c)), or a panic.
RECURSIVE scanDashS(_, _, _, _, _)
scanNext(rr, sha, guarded, pos, r) ==
  IF r.ev # "next" THEN [ev |-> r.ev, pos |-> pos, pkgscan |-> r.pkgscan]
  ELSE scanDashS(rr, sha, guarded, pos + 1, r.pkgscan)
scanDashS(rr, sha, guarded, pos, pkgscan) ==
  IF pos > Len(rr) THEN [ev |-> "close", pos |-> pos, pkgscan |-> pkgscan]
  ELSE scanNext(rr, sha, guarded, pos, scanLine(rr[pos], sha, guarded, pkgscan))

\* ------------------------------------------------------- filesizes (main.go)
\* newFilesizes: the table header goes into the tabwriter w, nothing to out.
newFilesizes ==
  [totbefore |-> 0, totafter |-> 0, haschange |-> FALSE,
   w |-> << [name |-> <<"f", "i", "l", "e">>] >>, out |-> <<>>]

\* The verb %+0.3f: n/d in thousandths, rounded to the nearest, a tie to even.
RoundHalfEven(n, d) ==
  IF 2 * (n % d) < d \/ (2 * (n % d) = d /\ (n \div d) % 2 = 0)
  THEN n \div d
  ELSE (n \div d) + 1
FormatMilli(num, den) == IF den = 0 THEN 0 ELSE RoundHalfEven(1000 * num, den)

\* Fault: the percentage taken over the after value.
RowPctOverAfter(name, before, after) ==
  [name |-> name, before |-> before, after |-> after, delta |-> after - before,
   pct |-> [num |-> 100 * after - 100 * before, den |-> after,
            fin |-> after # 0,
            milli |-> FormatMilli(100 * after - 100 * before, after)]]
\* One printed row: name, before, after, the signed delta, and the percentage
\* 100*float64(after)/float64(before) - 100: the fraction num/den, whether it
\* is finite (a zero before gives Inf or NaN), and the thousandths printed.
Row(name, before, after) ==
  [name |-> name, before |-> before, after |-> after, delta |-> after - before,
   pct |-> [num |-> 100 * after - 100 * before, den |-> before,
            fin |-> before # 0,
            milli |-> FormatMilli(100 * after - 100 * before, before)]]

\* s.haschange = true; fmt.Fprintf(s.w, ...)
addRow(t, name, beforeSize, afterSize) ==
  IF beforeSize = afterSize THEN t
  ELSE [t EXCEPT !.haschange = TRUE, !.w = Append(@, Row(name, beforeSize, afterSize))]
\* Fault: add that tests only the before size for zero.
addAfterZeroKept(s, name, beforeSize, afterSize) ==
  IF beforeSize = 0 THEN s
  ELSE addRow([s EXCEPT !.totbefore = @ + beforeSize, !.totafter = @ + afterSize],
              name, beforeSize, afterSize)
\* Fault: add without its test for a zero size.
addZeroKept(s, name, beforeSize, afterSize) ==
  addRow([s EXCEPT !.totbefore = @ + beforeSize, !.totafter = @ + afterSize],
         name, beforeSize, afterSize)
\* Fault: add that returns on equal sizes before it updates the totals.
addEqualSkipped(s, name, beforeSize, afterSize) ==
  IF beforeSize = 0 \/ afterSize = 0 \/ beforeSize = afterSize THEN s
  ELSE addRow([s EXCEPT !.totbefore = @ + beforeSize, !.totafter = @ + afterSize],
              name, beforeSize, afterSize)
\* (s *filesizes) add
add(s, name, beforeSize, afterSize) ==
  IF beforeSize = 0 \/ afterSize = 0 THEN s
  ELSE addRow([s EXCEPT !.totbefore = @ + beforeSize, !.totafter = @ + afterSize],
              name, beforeSize, afterSize)

\* Fault: flush that prints the table whether or not a row changed.
filesizesFlushAlwaysTable(s, desc) ==
  [s EXCEPT !.out = @ \o s.w \o << Row(<<"t", "o", "t", "a", "l">>, s.totbefore, s.totafter) >>,
            !.w = <<>>]

\* (s *filesizes) flush: the total row and w.Flush() (w's rows reach out), or
\* the one "no <desc> size changes" line.
filesizesFlush(s, desc) ==
  IF s.haschange
  THEN [s EXCEPT !.out = @ \o s.w \o << Row(<<"t", "o", "t", "a", "l">>, s.totbefore, s.totafter) >>,
                 !.w = <<>>]
  ELSE [s EXCEPT !.out = Append(@, [name |-> <<"n", "o">>, desc |-> desc])]

\* ------------------------------------------- the diff of one matched pair
\* -fn values main() lets through to compareFunctions.
Modes == {"all", "changed", "smaller", "bigger", "stats"}

AnonPrefix == <<"\"", "\"", ".">>

\* Fault: printHeader that never clears needsHeader.
printHeaderEveryTime(acc, pkg) ==
  IF ~acc.needsHeader THEN acc
  ELSE [acc EXCEPT !.lines = Append(@, [k |-> "header", name |-> pkg])]

\* printHeader closure: the package header, once.
printHeader(acc, pkg) ==
  IF ~acc.needsHeader THEN acc
  ELSE [acc EXCEPT !.lines = Append(@, [k |-> "header", name |-> pkg]),
                   !.needsHeader = FALSE]

PrintLine(acc, line) == [acc EXCEPT !.lines = Append(@, line)]

\* Whether a function whose size changed is printed.
show(asf, bsf, flagFn) ==
  IF asf.textsize < bsf.textsize
  THEN ~(flagFn = "better" \/ flagFn = "stats")
  ELSE ~(flagFn = "worse" \/ flagFn = "stats")

\* Fault: diffBoth that prints "changed" in every mode but stats.
diffBothSameSizeShown(acc, name, asf, bsf, pkg, flagFn) ==
  IF asf.bodyhash = bsf.bodyhash THEN acc
  ELSE IF asf.textsize = bsf.textsize
  THEN IF flagFn # "stats"
       THEN PrintLine(printHeader(acc, pkg), [k |-> "changed", name |-> name])
       ELSE acc
  ELSE IF show(asf, bsf, flagFn)
  THEN PrintLine(printHeader(acc, pkg),
                 [k |-> "size", name |-> TrimPrefix(name, AnonPrefix),
                  before |-> asf.textsize, after |-> bsf.textsize])
  ELSE acc

\* Fault: diffBoth without the `bytes.Equal(asf.bodyhash, bsf.bodyhash)` test.
diffBothNoHashTest(acc, name, asf, bsf, pkg, flagFn) ==
  IF asf.textsize = bsf.textsize
  THEN IF flagFn = "all"
       THEN PrintLine(printHeader(acc, pkg), [k |-> "changed", name |-> name])
       ELSE acc
  ELSE IF show(asf, bsf, flagFn)
  THEN PrintLine(printHeader(acc, pkg),
                 [k |-> "size", name |-> TrimPrefix(name, AnonPrefix),
                  before |-> asf.textsize, after |-> bsf.textsize])
  ELSE acc

\* A function of both packages, after `delete(bPkg.Funcs, name)` and
\* `bTot += bsf.textsize`.
diffBoth(acc, name, asf, bsf, pkg, flagFn) ==
  IF asf.bodyhash = bsf.bodyhash THEN acc
  ELSE IF asf.textsize = bsf.textsize
  THEN IF flagFn = "all"
       THEN PrintLine(printHeader(acc, pkg), [k |-> "changed", name |-> name])
       ELSE acc
  ELSE IF show(asf, bsf, flagFn)
  THEN PrintLine(printHeader(acc, pkg),
                 [k |-> "size", name |-> TrimPrefix(name, AnonPrefix),
                  before |-> asf.textsize, after |-> bsf.textsize])
  ELSE acc

\* After `aTot += asf.textsize`: the lookup in bPkg.Funcs.
diffLookup(acc, name, asf, pkg, flagFn) ==
  IF name \notin DOMAIN acc.bFuncs
  THEN IF flagFn # "stats"
       THEN PrintLine(printHeader(acc, pkg), [k |-> "DELETED", name |-> name])
       ELSE acc
  ELSE diffBoth([acc EXCEPT !.bFuncs = MapDel(@, name),
                            !.bTot = @ + acc.bFuncs[name].textsize],
                name, asf, acc.bFuncs[name], pkg, flagFn)

\* The body of `for name, asf := range aPkg.Funcs`.
diffBefore(acc, name, asf, pkg, flagFn) ==
  diffLookup([acc EXCEPT !.aTot = @ + asf.textsize], name, asf, pkg, flagFn)

\* Fault: the second loop without its `*flagFn != "stats"` test.
diffAfterInStatsToo(acc, name, bsf, pkg, flagFn) ==
  [PrintLine(printHeader(acc, pkg), [k |-> "INSERTED", name |-> name])
     EXCEPT !.bTot = @ + bsf.textsize]

\* The body of `for name, bsf := range bPkg.Funcs` (what the first loop left).
diffAfter(acc, name, bsf, pkg, flagFn) ==
  IF flagFn # "stats"
  THEN [PrintLine(printHeader(acc, pkg), [k |-> "INSERTED", name |-> name])
          EXCEPT !.bTot = @ + bsf.textsize]
  ELSE [acc EXCEPT !.bTot = @ + bsf.textsize]

RECURSIVE rangeBefore(_, _, _, _, _)
rangeBefore(acc, order, aFuncs, pkg, flagFn) ==
  IF order = <<>> THEN acc
  ELSE rangeBefore(diffBefore(acc, Head(order), aFuncs[Head(order)], pkg, flagFn),
                   Tail(order), aFuncs, pkg, flagFn)

RECURSIVE rangeAfter(_, _, _, _, _)
rangeAfter(acc, order, bFuncs, pkg, flagFn) ==
  IF order = <<>> THEN acc
  ELSE rangeAfter(diffAfter(acc, Head(order), bFuncs[Head(order)], pkg, flagFn),
                  Tail(order), bFuncs, pkg, flagFn)

\* The orders in which `range` may walk a map with key set S.
Orders(S) == {o \in [1..Cardinality(S) -> S] : \A e \in S : \E i \in DOMAIN o : o[i] = e}

\* The second loop, over what the first left of bPkg.Funcs.
diffRest(acc, orderB, pkg, flagFn) == rangeAfter(acc, orderB, acc.bFuncs, pkg, flagFn)

\* The loops over one matched pair, from `pkg := aPkg.Name` to the arguments
\* of sizes.add; orderA and orderB are the orders the two `range`s take.
\* bFuncs is bPkg.Funcs, which the first loop deletes from.
diffPair(aPkg, bPkg, flagFn, orderA, orderB) ==
  diffRest(rangeBefore([lines |-> <<>>, needsHeader |-> TRUE, aTot |-> 0, bTot |-> 0,
                        bFuncs |-> bPkg.Funcs],
                       orderA, aPkg.Funcs, aPkg.Name, flagFn),
           orderB, aPkg.Name, flagFn)

\* The keys the second loop walks: bPkg.Funcs without the names of aPkg.Funcs.
LeftInAfter(aPkg, bPkg) == (DOMAIN bPkg.Funcs) \ (DOMAIN aPkg.Funcs)

\* ------------------------------------------------------------ the inputs
Sides == {"a", "b"}
Opp(s) == IF s = "a" THEN "b" ELSE "a"

\* before.sha and after.sha
Sha(s) == IF s = "a" THEN <<"a", "1">> ELSE <<"b", "2">>

PkgP == <<"p">>
PkgQ == <<"q", "q">>
PkgR == <<"r", "u", "n">>
PkgX == <<"x", "x">>
PkgNames == {PkgP, PkgQ, PkgR, PkgX}

\* "# <name>"
PkgLine(name) == <<"#", SP>> \o name
\* "<name> STEXT size=<field> a"
SummaryLine(name, field) ==
  name \o <<SP, "S", "T", "E", "X", "T">> \o KwSize \o field \o <<SP, "a">>
BodyLine(t) == <<TAB>> \o t
FuncLines(name, size, body) == << SummaryLine(name, Itoa(size)), BodyLine(body) >>

\* What each build prints for a package.  p: f unchanged, g grows.  qq: f
\* differs only by the build's sha in its body, h is deleted, k inserted.
\* run: f shrinks.  xx: the before build prints a summary line whose size is
\* no integer.
Section(s, name) ==
  << PkgLine(name) >> \o
  ( IF name = PkgP
    THEN FuncLines(<<"f">>, 1, <<"x">>) \o
         (IF s = "a" THEN FuncLines(<<"g">>, 2, <<"y">>) ELSE FuncLines(<<"g">>, 3, <<"z">>))
    ELSE IF name = PkgQ
    THEN FuncLines(<<"f">>, 2, <<"v">> \o Sha(s)) \o
         (IF s = "a" THEN FuncLines(<<"h">>, 1, <<"w">>) ELSE FuncLines(<<"k">>, 1, <<"w">>))
    ELSE IF name = PkgR
    THEN (IF s = "a" THEN FuncLines(<<"f">>, 3, <<"y">>) ELSE FuncLines(<<"f">>, 1, <<"z">>))
    ELSE IF s = "a"
         THEN << SummaryLine(<<"f">>, <<"x">>), BodyLine(<<"x">>) >>
         ELSE FuncLines(<<"f">>, 1, <<"x">>) )

RECURSIVE Render(_, _)
Render(s, names) ==
  IF names = <<>> THEN <<>> ELSE Section(s, Head(names)) \o Render(s, Tail(names))

Streams == UNION {[1..n -> PkgNames] : n \in 0..MaxPkgs}

VARIABLES
  flagFn,    \* *flagFn
  input,     \* per side, the package names its build prints, in order
  scan,      \* per side, the scanDashS goroutine: pc, line position, pkgscan
  exitErr,   \* per side, whether the build's cmd.Wait() returns an error
  proc,      \* the process: "run", or how it died ("check", "crash", "fatal")
  cpc,       \* compareFunctions / compareFuncReaders: where the main goroutine is
  chanOpen,  \* per side, whether the consumer's channel variable is non-nil
  pend,      \* aPkgs ("a") and bPkgs ("b")
  aHeld,     \* lockstep loop: aPkg between the two receives
  sizes,     \* the filesizes table
  stdout,    \* what was printed to os.Stdout
  logs,      \* what was logged
  recv,      \* history: per side, the names received, in order
  diffs,     \* history: the pairs diffed, in order
  pair,      \* a matched pair handed to the diff reporter on its own
  hdr,       \* a summary line handed to flush on its own: name, fields, trailing space
  res,       \* and what came of it
  calls,     \* history: the calls of sizes.add, in order
  tmpl,      \* the body of one function as the two builds print it, handed to the scanners on its own
  drv,       \* main(): the flags -n and -each, the commits, where main is, and what it has run
  split,     \* a name handed to splitPkgFnname on its own, and what came of it
  text,      \* the lines of one -S output handed to one scanner on its own
  got,       \* what that scanner's channel has delivered
  git,       \* the refs of the repository, resolve's cache and the worktrees
  cache      \* cleanCache: the directories of ~/.compilecmp and its goroutines

vars == <<flagFn, input, scan, exitErr, proc, cpc, chanOpen, pend, aHeld, sizes,
          stdout, logs, recv, diffs, pair, hdr, res, calls, tmpl, drv,
          split, text, got, git, cache>>

Text(s) == WithEOF(Render(s, input[s]))

NoRes == [out |-> "none"]

InitRun ==
  /\ scan = [s \in Sides |-> [pc |-> "run", pos |-> 1, pkgscan |-> NilPkg]]
  /\ exitErr = [s \in Sides |-> FALSE]
  /\ proc = "run"
  /\ cpc = "loop"
  /\ chanOpen = [s \in Sides |-> TRUE]
  /\ pend = [s \in Sides |-> EmptyMap]
  /\ aHeld = NilPkg
  /\ sizes = newFilesizes
  /\ stdout = <<>>
  /\ logs = <<>>
  /\ recv = [s \in Sides |-> <<>>]
  /\ diffs = <<>>
  /\ calls = <<>>

NoPair == [a |-> NilPkg, b |-> NilPkg]
\* Nothing was handed to splitPkgFnname or to a scanner on its own, and
\* neither resolve nor cleanCache is being followed.
NoSplit == [pc |-> "none"]
NoText == [lines |-> <<>>, guarded |-> TRUE]
NoGot == [pkgs |-> <<>>, closed |-> FALSE]
NoGit == [pc |-> "none"]
NoCache == [pc |-> "none"]
InitOther ==
  /\ split = NoSplit
  /\ text = NoText
  /\ got = NoGot
  /\ git = NoGit
  /\ cache = NoCache
\* No body was handed over; main() is not being followed.
NoTmpl == [ins |-> <<>>, noise |-> <<>>]
NoDrv == [pc |-> "none"]
NoHdr == [name |-> <<>>, fields |-> <<>>, trail |-> FALSE]

Init ==
  /\ flagFn \in Modes
  /\ input \in [Sides -> Streams]
  /\ InitRun
  /\ InitOther
  /\ pair = NoPair
  /\ hdr = NoHdr
  /\ res = NoRes
  /\ tmpl = NoTmpl
  /\ drv = NoDrv

\* ---------------------------------------------------- the scanner goroutine
\* scanDashS up to its next send, its close, or its panic.  The pipe reaches
\* EOF when the build exits, with or without an error.
\* Fault: a scanner whose panic ends its goroutine only.
ScanToGoroutineOnly(s, r) ==
  IF r.ev = "send"
  THEN /\ scan' = [scan EXCEPT ![s] = [pc |-> "send", pos |-> r.pos, pkgscan |-> r.pkgscan]]
       /\ UNCHANGED <<proc, exitErr>>
  ELSE IF r.ev = "close"
  THEN /\ scan' = [scan EXCEPT ![s] = [pc |-> "closed", pos |-> r.pos, pkgscan |-> r.pkgscan]]
       /\ \E e \in BOOLEAN : exitErr' = [exitErr EXCEPT ![s] = e]
       /\ UNCHANGED proc
  ELSE /\ scan' = [scan EXCEPT ![s] = [pc |-> "panicked", pos |-> r.pos, pkgscan |-> r.pkgscan]]
       /\ UNCHANGED <<proc, exitErr>>

ScanTo(s, r) ==
  IF r.ev = "send"
  THEN /\ scan' = [scan EXCEPT ![s] = [pc |-> "send", pos |-> r.pos, pkgscan |-> r.pkgscan]]
       /\ UNCHANGED <<proc, exitErr>>
  ELSE IF r.ev = "close"
  THEN /\ scan' = [scan EXCEPT ![s] = [pc |-> "closed", pos |-> r.pos, pkgscan |-> r.pkgscan]]
       /\ \E e \in BOOLEAN : exitErr' = [exitErr EXCEPT ![s] = e]
       /\ UNCHANGED proc
  ELSE /\ proc' = r.ev
       /\ scan' = [scan EXCEPT ![s] = [pc |-> "panicked", pos |-> r.pos, pkgscan |-> r.pkgscan]]
       /\ UNCHANGED exitErr

ScanStep(s, guarded) ==
  /\ proc = "run"
  /\ scan[s].pc = "run"
  /\ ScanTo(s, scanDashS(Text(s), Sha(s), guarded, scan[s].pos, scan[s].pkgscan))
  /\ UNCHANGED <<split, text, got, git, cache, tmpl, drv, flagFn, input, cpc, chanOpen, pend, aHeld, sizes, stdout, logs,
                 recv, diffs, pair, hdr, res, calls>>

\* The scanner after its send went through: the marker line starts the next
\* package.
AfterSend(s) ==
  [pc |-> "run", pos |-> scan[s].pos + 1, pkgscan |-> NewPkgScanner(Text(s)[scan[s].pos])]

\* What one diff leaves in the history.
DiffRecord(aPkg, bPkg, d) ==
  [name |-> aPkg.Name, bname |-> bPkg.Name, aFuncs |-> aPkg.Funcs, bFuncs |-> bPkg.Funcs,
   lines |-> d.lines, aTot |-> d.aTot, bTot |-> d.bTot, bLeft |-> d.bFuncs,
   nrecv |-> Len(recv["a"]) + Len(recv["b"]) + 1, open |-> chanOpen]

DotS == <<".", "s">>

\* The arguments of one call of sizes.add.
AddCall(name, beforeSize, afterSize) == [name |-> name, before |-> beforeSize, after |-> afterSize]

\* ------------------------------------- compareFuncReaders, select variant
\* The matched pair: the diff is printed, the totals go to sizes.add.
Report(aPkg, bPkg, d, label) ==
  /\ stdout' = stdout \o d.lines
  /\ sizes' = add(sizes, label, d.aTot, d.bTot)
  /\ calls' = Append(calls, AddCall(label, d.aTot, d.bTot))
  /\ diffs' = Append(diffs, DiffRecord(aPkg, bPkg, d))

Match(aPkg, bPkg) ==
  \E orderA \in Orders(DOMAIN aPkg.Funcs), orderB \in Orders(LeftInAfter(aPkg, bPkg)) :
    Report(aPkg, bPkg, diffPair(aPkg, bPkg, flagFn, orderA, orderB), aPkg.Name \o DotS)

\* Fault: the select's case stores the package and never looks at the other
\* side's map.
JoinStoreOnly(s, pk) ==
  /\ pend' = [pend EXCEPT ![s] = MapPut(@, pk.Name, pk)]
  /\ UNCHANGED <<sizes, stdout, diffs, calls>>

\* Fault: the matched pair handed to the diff as (arriving, stored).
JoinArrivingFirst(s, pk) ==
  IF pk.Name \notin DOMAIN pend[Opp(s)]
  THEN /\ pend' = [pend EXCEPT ![s] = MapPut(@, pk.Name, pk)]
       /\ UNCHANGED <<sizes, stdout, diffs, calls>>
  ELSE /\ pend' = [pend EXCEPT ![Opp(s)] = MapDel(@, pk.Name)]
       /\ Match(pk, pend[Opp(s)][pk.Name])

\* Fault: once the other channel is closed a received package is stored
\* without a look at the other side's map.
JoinWhileOpen(s, pk) ==
  IF pk.Name \notin DOMAIN pend[Opp(s)] \/ ~chanOpen[Opp(s)]
  THEN /\ pend' = [pend EXCEPT ![s] = MapPut(@, pk.Name, pk)]
       /\ UNCHANGED <<sizes, stdout, diffs, calls>>
  ELSE /\ pend' = [pend EXCEPT ![Opp(s)] = MapDel(@, pk.Name)]
       /\ IF s = "a" THEN Match(pk, pend["b"][pk.Name]) ELSE Match(pend["a"][pk.Name], pk)

\* The select's case for side s with the package pk received.
Join(s, pk) ==
  IF pk.Name \notin DOMAIN pend[Opp(s)]
  THEN /\ pend' = [pend EXCEPT ![s] = MapPut(@, pk.Name, pk)]
       /\ UNCHANGED <<sizes, stdout, diffs, calls>>
  ELSE /\ pend' = [pend EXCEPT ![Opp(s)] = MapDel(@, pk.Name)]
       /\ IF s = "a" THEN Match(pk, pend["b"][pk.Name]) ELSE Match(pend["a"][pk.Name], pk)

\* One iteration of the loop that receives a package: `case aPkg = <-aChan`
\* (s = "a") or `case bPkg = <-bChan` (s = "b") of the select, then either
\* the store-and-continue or the diff of the matched pair and sizes.add.
RecvPkg(s) ==
  /\ proc = "run"
  /\ cpc = "loop"
  /\ chanOpen[s]
  /\ scan[s].pc = "send"
  /\ scan' = [scan EXCEPT ![s] = AfterSend(s)]
  /\ recv' = [recv EXCEPT ![s] = Append(@, scan[s].pkgscan.Name)]
  /\ Join(s, scan[s].pkgscan)
  /\ UNCHANGED <<split, text, got, git, cache, tmpl, drv, flagFn, input, exitErr, proc, cpc, chanOpen, aHeld, logs, pair, hdr, res>>

\* One iteration that receives nil from a closed channel: disable it.
RecvNil(s) ==
  /\ proc = "run"
  /\ cpc = "loop"
  /\ chanOpen[s]
  /\ scan[s].pc = "closed"
  /\ chanOpen' = [chanOpen EXCEPT ![s] = FALSE]
  /\ UNCHANGED <<split, text, got, git, cache, tmpl, drv, flagFn, input, scan, exitErr, proc, cpc, pend, aHeld, sizes, stdout,
                 logs, recv, diffs, pair, hdr, res, calls>>

TextSize == <<"t", "e", "x", "t", " ", "s", "i", "z", "e">>
LogLines(kind, order) == [i \in 1..Len(order) |-> [k |-> kind, name |-> order[i]]]

\* Fault: `||` for `&&` in the loop's exit test.
LoopDoneEither(open) == ~open["a"] \/ ~open["b"]

\* `if aChan == nil && bChan == nil { break }`
LoopDone(open) == ~open["a"] /\ ~open["b"]

\* The loop's exit (both channel variables nil) and what follows it:
\* sizes.flush, the blank line, the copy of the table to stdout, and the
\* "was deleted" / "was added" log lines in the order `range` walks the maps.
Finish ==
  /\ proc = "run"
  /\ cpc = "loop"
  /\ LoopDone(chanOpen)
  /\ sizes' = filesizesFlush(sizes, TextSize)
  /\ stdout' = stdout \o << [k |-> "blank"], [k |-> "table", rows |-> sizes'.out] >>
  /\ \E oa \in Orders(DOMAIN pend["a"]), ob \in Orders(DOMAIN pend["b"]) :
       logs' = logs \o LogLines("deleted", oa) \o LogLines("added", ob)
  /\ cpc' = "await"
  /\ UNCHANGED <<split, text, got, git, cache, tmpl, drv, flagFn, input, scan, exitErr, proc, chanOpen, pend, aHeld, recv,
                 diffs, pair, hdr, res, calls>>

\* ------------------------------------- compareFuncReaders, lockstep variant
\* `aPkg := <-aChan`: a package, or nil once the channel is closed.
LockRecvA ==
  /\ proc = "run"
  /\ cpc = "loop"
  /\ scan["a"].pc \in {"send", "closed"}
  /\ IF scan["a"].pc = "send"
     THEN /\ aHeld' = scan["a"].pkgscan
          /\ scan' = [scan EXCEPT !["a"] = AfterSend("a")]
          /\ recv' = [recv EXCEPT !["a"] = Append(@, scan["a"].pkgscan.Name)]
     ELSE /\ aHeld' = NilPkg
          /\ UNCHANGED <<scan, recv>>
  /\ cpc' = "recvB"
  /\ UNCHANGED <<split, text, got, git, cache, tmpl, drv, flagFn, input, exitErr, proc, chanOpen, pend, sizes, stdout, logs,
                 diffs, pair, hdr, res, calls>>

\* sizes.add(string(pkg)[len("# "):]+".s", ...): the slice panics for a name
\* shorter than two bytes, after the diff lines were printed.
LockReport(aPkg, bPkg, d) ==
  /\ stdout' = stdout \o d.lines
  /\ diffs' = Append(diffs, DiffRecord(aPkg, bPkg, d))
  /\ IF SliceOK(aPkg.Name, 2, Len(aPkg.Name))
     THEN /\ sizes' = add(sizes, GoSlice(aPkg.Name, 2, Len(aPkg.Name)) \o DotS, d.aTot, d.bTot)
          /\ calls' = Append(calls, AddCall(GoSlice(aPkg.Name, 2, Len(aPkg.Name)) \o DotS,
                                            d.aTot, d.bTot))
          /\ cpc' = "loop"
          /\ UNCHANGED proc
     ELSE /\ proc' = "crash"
          /\ UNCHANGED <<sizes, cpc, calls>>

\* The iteration once both receives are done: the break, one of the three
\* log.Fatalf, or the diff.
LockJoin(aPkg, bPkg) ==
  IF aPkg.nil /\ bPkg.nil
  THEN /\ cpc' = "break"
       /\ UNCHANGED <<proc, logs, stdout, sizes, diffs, calls>>
  ELSE IF aPkg.nil \/ bPkg.nil \/ aPkg.Name # bPkg.Name
  THEN /\ proc' = "fatal"
       /\ logs' = Append(logs, [k |-> "fatalf", a |-> aPkg.Name, b |-> bPkg.Name])
       /\ UNCHANGED <<cpc, stdout, sizes, diffs, calls>>
  ELSE /\ \E orderA \in Orders(DOMAIN aPkg.Funcs), orderB \in Orders(LeftInAfter(aPkg, bPkg)) :
            LockReport(aPkg, bPkg, diffPair(aPkg, bPkg, flagFn, orderA, orderB))
       /\ UNCHANGED logs

\* `bPkg := <-bChan` (a package, or nil once the channel is closed) and the
\* rest of the iteration.
LockRecvB ==
  /\ proc = "run"
  /\ cpc = "recvB"
  /\ scan["b"].pc \in {"send", "closed"}
  /\ IF scan["b"].pc = "send"
     THEN /\ scan' = [scan EXCEPT !["b"] = AfterSend("b")]
          /\ recv' = [recv EXCEPT !["b"] = Append(@, scan["b"].pkgscan.Name)]
          /\ LockJoin(aHeld, scan["b"].pkgscan)
     ELSE /\ UNCHANGED <<scan, recv>>
          /\ LockJoin(aHeld, NilPkg)
  /\ aHeld' = NilPkg
  /\ UNCHANGED <<split, text, got, git, cache, tmpl, drv, flagFn, input, exitErr, chanOpen, pend, pair, hdr, res>>

\* After the break: sizes.flush, the blank line, the copy of the table.
LockFinish ==
  /\ proc = "run"
  /\ cpc = "break"
  /\ sizes' = filesizesFlush(sizes, TextSize)
  /\ stdout' = stdout \o << [k |-> "blank"], [k |-> "table", rows |-> sizes'.out] >>
  /\ cpc' = "await"
  /\ UNCHANGED <<split, text, got, git, cache, tmpl, drv, flagFn, input, scan, exitErr, proc, chanOpen, pend, aHeld, logs,
                 recv, diffs, pair, hdr, res, calls>>

\* ------------------------------------------------------- compareFunctions
\* await() and then bwait(), after compareFuncReaders has returned:
\* err := cmd.Wait(); check(err).
Wait(s) ==
  /\ proc = "run"
  /\ cpc = (IF s = "a" THEN "await" ELSE "bwait")
  /\ IF exitErr[s]
     THEN proc' = "check" /\ UNCHANGED cpc
     ELSE cpc' = (IF s = "a" THEN "bwait" ELSE "done") /\ UNCHANGED proc
  /\ UNCHANGED <<split, text, got, git, cache, tmpl, drv, flagFn, input, scan, exitErr, chanOpen, pend, aHeld, sizes, stdout,
                 logs, recv, diffs, pair, hdr, res, calls>>

\* ------------------------------------------------------ the specifications
\* The select variant of compareFuncReaders.
Next ==
  \/ ScanStep("a", TRUE)
  \/ ScanStep("b", TRUE)
  \/ RecvPkg("a")
  \/ RecvPkg("b")
  \/ RecvNil("a")
  \/ RecvNil("b")
  \/ Finish
  \/ Wait("a")
  \/ Wait("b")

Spec == Init /\ [][Next]_vars

\* The lockstep variant of compareFuncReaders.
NextLock ==
  \/ ScanStep("a", FALSE)
  \/ ScanStep("b", FALSE)
  \/ LockRecvA
  \/ LockRecvB
  \/ LockFinish
  \/ Wait("a")
  \/ Wait("b")

SpecLock == Init /\ [][NextLock]_vars

\* The select variant under the scheduler's fairness: a goroutine that can
\* take a step eventually takes one.
Consumer ==
  \/ RecvPkg("a")
  \/ RecvPkg("b")
  \/ RecvNil("a")
  \/ RecvNil("b")
  \/ Finish
  \/ Wait("a")
  \/ Wait("b")
\* ScanStep(s, TRUE) is enabled exactly when its two guards hold.
ScanReady(s) == proc = "run" /\ scan[s].pc = "run"
\* WF_vars(ScanStep(s, TRUE)), with ENABLED written as ScanReady(s).
ScanFair(s) == []<>(~ScanReady(s)) \/ []<><<ScanStep(s, TRUE)>>_vars
FairSpec == Spec /\ ScanFair("a") /\ ScanFair("b") /\ WF_vars(Consumer)

\* --------------------------------------- the diff reporter on its own
FuncNames == {<<"f">>, <<"g">>}
BodyHashes == { << BodyLine(<<"x">>) >>, << BodyLine(<<"y">>) >> }
FuncVals == [textsize : 0..MaxSize, bodyhash : BodyHashes]
FuncMaps == UNION {[D -> FuncVals] : D \in SUBSET FuncNames}
PkgOf(name, funcs) ==
  [nil |-> FALSE, Name |-> name, Funcs |-> funcs, Hash |-> <<>>, stext |-> <<>>]

InitDiff ==
  /\ flagFn \in Modes
  /\ input = [s \in Sides |-> <<>>]
  /\ InitRun
  /\ InitOther
  /\ \E fa \in FuncMaps, fb \in FuncMaps : pair = [a |-> PkgOf(PkgQ, fa), b |-> PkgOf(PkgQ, fb)]
  /\ hdr = NoHdr
  /\ res = NoRes
  /\ tmpl = NoTmpl
  /\ drv = NoDrv

\* The loop body of compareFuncReaders from `pkg := aPkg.Name` on, for the
\* matched pair.
DiffStep ==
  /\ ~pair.a.nil /\ ~pair.b.nil
  /\ diffs = <<>>
  /\ Match(pair.a, pair.b)
  /\ UNCHANGED <<split, text, got, git, cache, tmpl, drv, flagFn, input, scan, exitErr, proc, cpc, chanOpen, pend, aHeld, logs,
                 recv, pair, hdr, res>>

SpecDiff == InitDiff /\ [][DiffStep]_vars

\* The matched pair with function names as the compiler writes them for the
\* package being compiled: `"".f` beside a name without the qualifier.
AnonNames == {AnonPrefix \o <<"f">>, <<"g">>}
AnonMaps == UNION {[D -> FuncVals] : D \in SUBSET AnonNames}
InitAnon ==
  /\ flagFn \in Modes
  /\ input = [s \in Sides |-> <<>>]
  /\ InitRun
  /\ InitOther
  /\ \E fa \in AnonMaps, fb \in AnonMaps : pair = [a |-> PkgOf(PkgQ, fa), b |-> PkgOf(PkgQ, fb)]
  /\ hdr = NoHdr
  /\ res = NoRes
  /\ tmpl = NoTmpl
  /\ drv = NoDrv

SpecAnon == InitAnon /\ [][DiffStep]_vars

\* -------------------------------- one function body through both scanners
\* The body of a function as `go build -S` prints it: an instruction line,
\* then the raw dump lines ("\t0x<address> <bytes>") and the relocation
\* lines ("\trel <reference>").  The instruction line is the same in both
\* builds but for the places where a build prints its own sha (the piece
\* "TOKEN"); a dump or relocation line may differ between the builds.
Token == "TOKEN"
Pieces == {Token, "a", "1", "b", "2"}
PieceSeqs == UNION {[1..n -> Pieces] : n \in 1..MaxPieces}
NoiseVals == {<<"0">>, <<"4">>}
NoiseLines == [k : {"dump", "rel"}, a : NoiseVals, b : NoiseVals]
NoiseSeqs == UNION {[1..n -> NoiseLines] : n \in 0..MaxNoise}

RECURSIVE ExpandPieces(_, _)
ExpandPieces(ps, tok) ==
  IF ps = <<>> THEN <<>>
  ELSE (IF Head(ps) = Token THEN tok ELSE <<Head(ps)>>) \o ExpandPieces(Tail(ps), tok)
InsLine(ps, s) == <<TAB>> \o ExpandPieces(ps, Sha(s))
DumpPrefix == <<TAB, "0", "x">>
RelPrefix == <<TAB, "r", "e", "l", SP>>
NoiseLine(l, s) == (IF l.k = "dump" THEN DumpPrefix ELSE RelPrefix) \o l[s]
\* What build s prints for the function.
Body(t, s) == << InsLine(t.ins, s) >> \o [i \in 1..Len(t.noise) |-> NoiseLine(t.noise[i], s)]
\* The -S output of build s: the package qq with the one function f.
ShaText(t, s) == << PkgLine(PkgQ), SummaryLine(<<"f">>, <<"2">>) >> \o Body(t, s)

InitSha ==
  /\ flagFn = "all"
  /\ input = [s \in Sides |-> <<>>]
  /\ InitRun
  /\ InitOther
  /\ pair = NoPair
  /\ hdr = NoHdr
  /\ res = NoRes
  /\ \E ps \in PieceSeqs, ns \in NoiseSeqs : tmpl = [ins |-> ps, noise |-> ns]
  /\ drv = NoDrv

\* Both scanDashS goroutines over their build's text, each up to the send
\* of its package; the two packages are the matched pair.
ShaScanned(s) == scanDashS(WithEOF(ShaText(tmpl, s)), Sha(s), FALSE, 1, NilPkg)
ShaScan ==
  /\ pair = NoPair
  /\ ShaScanned("a").ev = "send" /\ ShaScanned("b").ev = "send"
  /\ pair' = [a |-> ShaScanned("a").pkgscan, b |-> ShaScanned("b").pkgscan]
  /\ UNCHANGED <<split, text, got, git, cache, tmpl, drv, flagFn, input, scan, exitErr, proc, cpc, chanOpen, pend, aHeld,
                 sizes, stdout, logs, recv, diffs, hdr, res, calls>>

NextSha == ShaScan \/ DiffStep
SpecSha == InitSha /\ [][NextSha]_vars

\* parseDashSPackage (the earlier scanner): what h holds after the lines of
\* one function body.  Every TAB line is written to h before the tests for
\* a dump line and for a "\trel " line, which only skip the (commented out)
\* append to body.
RECURSIVE parseDashSPackageHash(_, _)
parseDashSPackageHash(h, lines) ==
  IF lines = <<>> THEN h
  ELSE IF Len(Head(lines)) = 0 \/ Head(lines)[1] # TAB
  THEN parseDashSPackageHash(<<>>, Tail(lines))
  ELSE parseDashSPackageHash(Append(h, Head(lines)), Tail(lines))

\* ------------------------------------------ pkgScanner.flush on its own
FieldTokens ==
  { <<"S", "T", "E", "X", "T">>, <<"s", "i", "z", "e", "=", "3">>,
    <<"s", "i", "z", "e", "=", "x">>, <<"a", "b", "c">>, <<"7">> }
FieldSeqs == UNION {[1..n -> FieldTokens] : n \in 0..MaxFields}

RECURSIVE JoinFields(_)
JoinFields(fs) == IF fs = <<>> THEN <<>> ELSE <<SP>> \o Head(fs) \o JoinFields(Tail(fs))
\* The line: the name, each field after a space, and a trailing space or not.
HeaderLine(h) == h.name \o JoinFields(h.fields) \o (IF h.trail THEN <<SP>> ELSE <<>>)

InitFlush ==
  /\ flagFn = "all"
  /\ input = [s \in Sides |-> <<>>]
  /\ InitRun
  /\ InitOther
  /\ pair = NoPair
  /\ \E fs \in FieldSeqs, t \in BOOLEAN : hdr = [name |-> <<"f">>, fields |-> fs, trail |-> t]
  /\ res = NoRes
  /\ tmpl = NoTmpl
  /\ drv = NoDrv

\* flush of a package whose pending summary line is the header.
FlushStep ==
  /\ res = NoRes
  /\ res' = flush([NewPkgScanner(PkgLine(PkgQ)) EXCEPT !.stext = HeaderLine(hdr)])
  /\ UNCHANGED <<split, text, got, git, cache, tmpl, drv, flagFn, input, scan, exitErr, proc, cpc, chanOpen, pend, aHeld, sizes,
                 stdout, logs, recv, diffs, pair, hdr, calls>>

SpecFlush == InitFlush /\ [][FlushStep]_vars
\* ------------------------------------------ the table on its own (main.go)
\* compareBinaries: newFilesizes, one sizes.add per file, sizes.flush.
FileNames == {<<"g", "o">>, <<"a", "s", "m">>}
Binary == <<"b", "i", "n", "a", "r", "y">>

InitSizes ==
  /\ flagFn = "all"
  /\ input = [s \in Sides |-> <<>>]
  /\ InitRun
  /\ InitOther
  /\ pair = NoPair
  /\ hdr = NoHdr
  /\ res = NoRes
  /\ tmpl = NoTmpl
  /\ drv = NoDrv

\* `sizes.add(name, beforeSize, afterSize)` for the next file.
SizesAdd ==
  /\ cpc = "loop"
  /\ Len(calls) < MaxAdds
  /\ \E name \in FileNames, beforeSize \in 0..MaxSize, afterSize \in 0..MaxSize :
       /\ sizes' = add(sizes, name, beforeSize, afterSize)
       /\ calls' = Append(calls, AddCall(name, beforeSize, afterSize))
  /\ UNCHANGED <<split, text, got, git, cache, tmpl, drv, flagFn, input, scan, exitErr, proc, cpc, chanOpen, pend, aHeld, stdout,
                 logs, recv, diffs, pair, hdr, res>>

\* `sizes.flush("binary")`, after the loop over the files.
SizesFlush ==
  /\ cpc = "loop"
  /\ sizes' = filesizesFlush(sizes, Binary)
  /\ cpc' = "done"
  /\ UNCHANGED <<split, text, got, git, cache, tmpl, drv, flagFn, input, scan, exitErr, proc, chanOpen, pend, aHeld, stdout,
                 logs, recv, diffs, pair, hdr, res, calls>>

NextSizes == SizesAdd \/ SizesFlush

SpecSizes == InitSizes /\ [][NextSizes]_vars

\* ------------------------------------------- main(): -n and -each (main.go)
\* A history: commit 0 is what beforeRef resolves to, the commits 1..k were
\* made after it, each with one or two parents among the commits before it,
\* and afterRef resolves to commit k.
BeforeRef == 0
ParentMaps(k) ==
  {p \in [1..k -> SUBSET (0..(k - 1))] :
     \A c \in 1..k : p[c] # {} /\ p[c] \subseteq 0..(c - 1) /\ Cardinality(p[c]) <= 2}
Histories == UNION {ParentMaps(k) : k \in 0..MaxRevs}
AfterRef(p) == Len(p)
RECURSIVE Ancestors(_, _)
Ancestors(p, c) == IF c = 0 THEN {0} ELSE {c} \cup UNION {Ancestors(p, q) : q \in p[c]}
\* `git rev-list afterRef beforeRef..afterRef`: the commits reachable from
\* afterRef and not from beforeRef, no commit before one of its descendants.
RevSet(p) == Ancestors(p, AfterRef(p)) \ Ancestors(p, BeforeRef)
RevLists(p) ==
  {o \in Orders(RevSet(p)) : \A i, j \in DOMAIN o : i < j => o[i] \notin Ancestors(p, o[j])}

NoTmp == [a |-> <<>>, b |-> <<>>]
InitMain ==
  /\ flagFn = "all"
  /\ input = [s \in Sides |-> <<>>]
  /\ InitRun
  /\ InitOther
  /\ pair = NoPair
  /\ hdr = NoHdr
  /\ res = NoRes
  /\ tmpl = NoTmpl
  /\ \E n \in 0..MaxCount, e \in BOOLEAN, p \in Histories :
       drv = [pc |-> "main", count |-> n, each |-> e, par |-> p, revs |-> <<>>, i |-> 0,
              before |-> 0, after |-> 0, inEach |-> FALSE, bi |-> 0, side |-> "a",
              compares |-> <<>>, runs |-> <<>>, tmp |-> NoTmp]

\* compare -> comparePlatform up to the benchmark loop: worktree() gives
\* each commit a fresh temporary file.
comparePlatform(d, beforeRef, afterRef) ==
  [d EXCEPT !.before = beforeRef, !.after = afterRef,
            !.compares = Append(@, [before |-> beforeRef, after |-> afterRef]),
            !.tmp = NoTmp, !.bi = 0, !.side = "a",
            !.pc = IF d.count > 0 THEN "bench" ELSE "rest"]

\* Fault: the first run is recorded as well.
recordWarmup(i) == TRUE
\* `record := i != 0 // don't record the first run`
record(i) == i # 0

\* After a call of bench: before.bench is followed by after.bench, and
\* after.bench by `i++` and the loop test `i < *flagCount+1`.
benchNext(d) ==
  IF d.side = "a" THEN [d EXCEPT !.side = "b"]
  ELSE [d EXCEPT !.side = "a", !.bi = @ + 1,
                 !.pc = IF d.bi + 1 < d.count + 1 THEN "bench" ELSE "rest"]
\* (c *commit) bench: compilebench runs, its output goes to c.tmp when
\* record is set; check(err) panics when the run fails.
bench(d, ok) ==
  IF ~ok THEN [d EXCEPT !.pc = "panic"]
  ELSE benchNext([d EXCEPT
         !.runs = Append(@, [cmp |-> Len(d.compares), side |-> d.side, iter |-> d.bi,
                             record |-> record(d.bi)]),
         !.tmp[d.side] = IF record(d.bi) THEN Append(@, d.bi) ELSE @])

\* `compare(beforeRef, afterRef)`, the first statement after the checks.
MainCompare ==
  /\ drv.pc = "main"
  /\ drv' = comparePlatform(drv, BeforeRef, AfterRef(drv.par))
  /\ UNCHANGED <<split, text, got, git, cache, tmpl, flagFn, input, scan, exitErr, proc, cpc, chanOpen, pend, aHeld, sizes,
                 stdout, logs, recv, diffs, pair, hdr, res, calls>>

\* One call of bench in the loop `for i := 0; i < *flagCount+1; i++`.
Bench ==
  /\ drv.pc = "bench"
  /\ \E ok \in BOOLEAN : drv' = bench(drv, ok)
  /\ UNCHANGED <<split, text, got, git, cache, tmpl, flagFn, input, scan, exitErr, proc, cpc, chanOpen, pend, aHeld, sizes,
                 stdout, logs, recv, diffs, pair, hdr, res, calls>>

\* The rest of comparePlatform (benchstat, the size comparisons) and the
\* return to main: `if !*flagEach { return }` after the first comparison,
\* `i--` after one of the loop.
CompareReturns ==
  /\ drv.pc = "rest"
  /\ drv' = IF drv.inEach THEN [drv EXCEPT !.pc = "loop", !.i = @ - 1]
            ELSE IF drv.each THEN [drv EXCEPT !.pc = "list"]
            ELSE [drv EXCEPT !.pc = "done"]
  /\ UNCHANGED <<split, text, got, git, cache, tmpl, flagFn, input, scan, exitErr, proc, cpc, chanOpen, pend, aHeld, sizes,
                 stdout, logs, recv, diffs, pair, hdr, res, calls>>

\* `list, err := git("rev-list", ...); check(err); revs := strings.Fields(...)`
\* and `i := len(revs)`.
RevList ==
  /\ drv.pc = "list"
  /\ \/ drv' = [drv EXCEPT !.pc = "panic"]
     \/ \E revs \in RevLists(drv.par) :
          drv' = [drv EXCEPT !.revs = revs, !.i = Len(revs), !.inEach = TRUE, !.pc = "loop"]
  /\ UNCHANGED <<split, text, got, git, cache, tmpl, flagFn, input, scan, exitErr, proc, cpc, chanOpen, pend, aHeld, sizes,
                 stdout, logs, recv, diffs, pair, hdr, res, calls>>

\* The loop test `i > 0` and the loop body up to the call of compare.  Go's
\* revs[i] is drv.revs[i + 1], Go's revs[i-1] is drv.revs[i].
EachLoop ==
  /\ drv.pc = "loop"
  /\ IF drv.i > 0
     THEN /\ stdout' = Append(stdout, [k |-> "---"])
          /\ drv' = comparePlatform(drv,
                                    IF drv.i < Len(drv.revs) THEN drv.revs[drv.i + 1]
                                    ELSE BeforeRef,
                                    drv.revs[drv.i])
     ELSE /\ drv' = [drv EXCEPT !.pc = "done"]
          /\ UNCHANGED stdout
  /\ UNCHANGED <<split, text, got, git, cache, tmpl, flagFn, input, scan, exitErr, proc, cpc, chanOpen, pend, aHeld, sizes,
                 logs, recv, diffs, pair, hdr, res, calls>>

NextMain == MainCompare \/ Bench \/ CompareReturns \/ RevList \/ EachLoop
SpecMain == InitMain /\ [][NextMain]_vars

\* ------------------------------------------- splitPkgFnname (dumpssa.go)
\* strings.LastIndex and strings.ContainsAny.
LastOr(hits) == IF hits = {} THEN -1 ELSE CHOOSE i \in hits : \A j \in hits : i >= j
LastIndex(s, sub) == LastOr(IndexHits(s, sub))
ContainsAny(s, chars) == \E i \in DOMAIN s : s[i] \in chars

\* Fault: the split at the last dot.
splitDotLast(pkg, fnname, dot) ==
  IF LastIndex(fnname, <<".">>) >= 0
  THEN [pkg |-> pkg \o GoSlice(fnname, 0, LastIndex(fnname, <<".">>)),
        fnname |-> GoSlice(fnname, LastIndex(fnname, <<".">>) + 1, Len(fnname))]
  ELSE [pkg |-> pkg, fnname |-> fnname]
\* `if dot := strings.Index(fnname, "."); dot >= 0 { pkg += fnname[:dot];
\* fnname = fnname[dot+1:] }`
splitDot(pkg, fnname, dot) ==
  IF dot >= 0
  THEN [pkg |-> pkg \o GoSlice(fnname, 0, dot), fnname |-> GoSlice(fnname, dot + 1, Len(fnname))]
  ELSE [pkg |-> pkg, fnname |-> fnname]
\* `if !strings.ContainsAny(fnname, "()*") { ... }; return pkg, fnname`
splitTail(pkg, fnname) ==
  IF ~ContainsAny(fnname, {"(", ")", "*"}) THEN splitDot(pkg, fnname, Index(fnname, <<".">>))
  ELSE [pkg |-> pkg, fnname |-> fnname]
\* `if slash := strings.LastIndex(fnname, "/"); slash >= 0 { pkg =
\* fnname[:slash]; fnname = fnname[slash:] }`
splitSlash(in, slash) ==
  IF slash >= 0 THEN splitTail(GoSlice(in, 0, slash), GoSlice(in, slash, Len(in)))
  ELSE splitTail(<<>>, in)
splitPkgFnname(in) == splitSlash(in, LastIndex(in, <<"/">>))

NameChars == {"a", "/", ".", "(", ")", "*"}
Names == UNION {[1..n -> NameChars] : n \in 0..MaxName}

InitSplit ==
  /\ flagFn = "all"
  /\ input = [s \in Sides |-> <<>>]
  /\ InitRun
  /\ pair = NoPair
  /\ hdr = NoHdr
  /\ res = NoRes
  /\ tmpl = NoTmpl
  /\ drv = NoDrv
  /\ \E in \in Names : split = [pc |-> "in", in |-> in]
  /\ text = NoText
  /\ got = NoGot
  /\ git = NoGit
  /\ cache = NoCache

\* `pkg, fnname := splitPkgFnname(fnname)`
SplitStep ==
  /\ split.pc = "in"
  /\ split' = [pc |-> "out", in |-> split.in,
               pkg |-> splitPkgFnname(split.in).pkg,
               fnname |-> splitPkgFnname(split.in).fnname]
  /\ UNCHANGED <<text, got, git, cache, tmpl, drv, flagFn, input, scan, exitErr, proc, cpc,
                 chanOpen, pend, aHeld, sizes, stdout, logs, recv, diffs, pair, hdr, res, calls>>

SpecSplit == InitSplit /\ [][SplitStep]_vars

\* ------------------------------------- one scanDashS goroutine on its own
\* The lines a build may print: package lines, a line that is "#" alone,
\* summary lines of two functions, a header line of something that is no
\* function, body lines (one holding the build's sha) and the empty line.
LoneHash == <<"#">>
DataLine == <<"d", SP, "S", "R", "O">>
TextLines ==
  { PkgLine(PkgP), PkgLine(PkgQ), LoneHash,
    SummaryLine(<<"f">>, <<"1">>), SummaryLine(<<"g">>, <<"2">>), DataLine,
    BodyLine(<<"x">>), BodyLine(Sha("a")), <<>> }
Texts == UNION {[1..n -> TextLines] : n \in 0..MaxLines}

\* `go scanDashS(a, []byte(aHash), aChan)` over any such text, with either
\* form of the test for a package line.
InitText ==
  /\ flagFn = "all"
  /\ input = [s \in Sides |-> <<>>]
  /\ InitRun
  /\ pair = NoPair
  /\ hdr = NoHdr
  /\ res = NoRes
  /\ tmpl = NoTmpl
  /\ drv = NoDrv
  /\ split = NoSplit
  /\ \E lines \in Texts, guarded \in BOOLEAN : text = [lines |-> lines, guarded |-> guarded]
  /\ got = NoGot
  /\ git = NoGit
  /\ cache = NoCache

\* The goroutine up to its next send, its close, or its panic.
TextScanTo(r) ==
  /\ scan' = [scan EXCEPT !["a"] =
                [pc |-> IF r.ev = "send" THEN "send"
                        ELSE IF r.ev = "close" THEN "closed" ELSE "panicked",
                 pos |-> r.pos, pkgscan |-> r.pkgscan]]
  /\ proc' = IF r.ev \in {"send", "close"} THEN proc ELSE r.ev
TextScan ==
  /\ proc = "run"
  /\ scan["a"].pc = "run"
  /\ TextScanTo(scanDashS(WithEOF(text.lines), Sha("a"), text.guarded,
                          scan["a"].pos, scan["a"].pkgscan))
  /\ UNCHANGED <<split, text, got, git, cache, tmpl, drv, flagFn, input, exitErr, cpc, chanOpen,
                 pend, aHeld, sizes, stdout, logs, recv, diffs, pair, hdr, res, calls>>

\* `aPkg = <-aChan` with a package: the send goes through and the scanner
\* starts the package of the marker line it stands at.
TextRecv ==
  /\ proc = "run"
  /\ scan["a"].pc = "send"
  /\ got' = [got EXCEPT !.pkgs = Append(@, scan["a"].pkgscan)]
  /\ scan' = [scan EXCEPT !["a"] =
                [pc |-> "run", pos |-> scan["a"].pos + 1,
                 pkgscan |-> NewPkgScanner(WithEOF(text.lines)[scan["a"].pos])]]
  /\ UNCHANGED <<split, text, git, cache, tmpl, drv, flagFn, input, exitErr, proc, cpc, chanOpen,
                 pend, aHeld, sizes, stdout, logs, recv, diffs, pair, hdr, res, calls>>

\* `aPkg = <-aChan` with nil: the channel was closed.
TextRecvNil ==
  /\ proc = "run"
  /\ scan["a"].pc = "closed"
  /\ ~got.closed
  /\ got' = [got EXCEPT !.closed = TRUE]
  /\ UNCHANGED <<split, text, git, cache, tmpl, drv, flagFn, input, scan, exitErr, proc, cpc,
                 chanOpen, pend, aHeld, sizes, stdout, logs, recv, diffs, pair, hdr, res, calls>>

NextText == TextScan \/ TextRecv \/ TextRecvNil
SpecText == InitText /\ [][NextText]_vars

\* --------------------------------------- resolve and worktree (main.go)
\* The commits of the repository by their short sha, and the two refs of the
\* command line.  A ref names a commit; the user may move it while the
\* comparison runs.
Shas == 1..MaxShas
GitRefs == {"beforeRef", "afterRef"}
\* ~/.compilecmp as earlier runs left it: the directory named by a sha holds
\* that commit.
CacheDirs == {[d \in D |-> d] : D \in SUBSET Shas}

InitGit ==
  /\ flagFn = "all"
  /\ input = [s \in Sides |-> <<>>]
  /\ InitRun
  /\ pair = NoPair
  /\ hdr = NoHdr
  /\ res = NoRes
  /\ tmpl = NoTmpl
  /\ drv = NoDrv
  /\ split = NoSplit
  /\ text = NoText
  /\ got = NoGot
  /\ \E refs \in [GitRefs -> Shas], trees \in CacheDirs :
       git = [pc |-> "resolveBefore", refs |-> refs, resolved |-> EmptyMap, trees |-> trees,
              atStart |-> EmptyMap, moves |-> 0, work |-> <<>>]
  /\ cache = NoCache

\* resolve(ref): the cached sha, or `git rev-parse --short ref` cached.
resolve(g, ref) ==
  IF ref \in DOMAIN g.resolved THEN g
  ELSE [g EXCEPT !.resolved = MapPut(@, ref, g.refs[ref])]

\* `if !exists(dest) { git("worktree", "add", "--detach", dest, ref) }` with
\* dest the directory named by sha, and the commit{ref, sha, dir} returned:
\* git checks out what ref names when the command runs.
worktreeAdd(g, ref, sha) ==
  [g EXCEPT !.trees = IF sha \in DOMAIN g.trees THEN @ ELSE MapPut(@, sha, g.refs[ref]),
            !.work = Append(@, [ref |-> ref, sha |-> sha, dir |-> sha])]
\* worktree(ref): sha := resolve(ref), then the directory.
worktree(g, ref) == worktreeAdd(resolve(g, ref), ref, resolve(g, ref).resolved[ref])

\* main: `resolve(beforeRef)`, `resolve(afterRef)` right after the flags.
\* atStart keeps what the ref named when main resolved it.
GitResolveOf(ref, next) ==
  git' = [resolve(git, ref) EXCEPT !.pc = next, !.atStart = MapPut(@, ref, git.refs[ref])]
GitResolve ==
  /\ git.pc \in {"resolveBefore", "resolveAfter"}
  /\ IF git.pc = "resolveBefore" THEN GitResolveOf("beforeRef", "resolveAfter")
     ELSE GitResolveOf("afterRef", "treeBefore")
  /\ UNCHANGED <<split, text, got, cache, tmpl, drv, flagFn, input, scan, exitErr, proc, cpc,
                 chanOpen, pend, aHeld, sizes, stdout, logs, recv, diffs, pair, hdr, res, calls>>

\* comparePlatform: `before := worktree(beforeRef)`, `after := worktree(afterRef)`.
GitWorktreeOf(ref, next) == git' = [worktree(git, ref) EXCEPT !.pc = next]
GitWorktree ==
  /\ git.pc \in {"treeBefore", "treeAfter"}
  /\ IF git.pc = "treeBefore" THEN GitWorktreeOf("beforeRef", "treeAfter")
     ELSE GitWorktreeOf("afterRef", "done")
  /\ UNCHANGED <<split, text, got, cache, tmpl, drv, flagFn, input, scan, exitErr, proc, cpc,
                 chanOpen, pend, aHeld, sizes, stdout, logs, recv, diffs, pair, hdr, res, calls>>

\* The user moves a ref to another commit while the program runs.
GitMove ==
  /\ git.pc \notin {"none", "done"}
  /\ git.moves < MaxMoves
  /\ \E ref \in GitRefs, c \in Shas :
       /\ c # git.refs[ref]
       /\ git' = [git EXCEPT !.refs[ref] = c, !.moves = @ + 1]
  /\ UNCHANGED <<split, text, got, cache, tmpl, drv, flagFn, input, scan, exitErr, proc, cpc,
                 chanOpen, pend, aHeld, sizes, stdout, logs, recv, diffs, pair, hdr, res, calls>>

NextGit == GitResolve \/ GitWorktree \/ GitMove
SpecGit == InitGit /\ [][NextGit]_vars

\* ---------------------------------------------------- cleanCache (main.go)
\* The output of `git branch --contains sha` as a sequence of pieces: a line
\* of text or the newline that ends it.
NL == "\n"
NoBranchLine == "* (no branch)"
MasterLine == "master"
NotARepo == "fatal: not a git repository"
OtherError == "fatal: malformed object name"

\* A directory of ~/.compilecmp by what git answers in it: err is "none",
\* "notrepo" (a partially initialized worktree) or "other"; head is whether
\* the listing shows the detached HEAD of the worktree; branches are the
\* branches that contain the commit.
DirKinds ==
  [err : {"none"}, head : BOOLEAN, branches : SUBSET {MasterLine}]
    \cup [err : {"notrepo", "other"}, head : {FALSE}, branches : {{}}]
OnMaster == [err |-> "none", head |-> TRUE, branches |-> {MasterLine}]
\* What Readdir finds: up to MaxDirs directories of any kind, or one more
\* than the gate admits, all of commits on a branch.
DirLists ==
  UNION {[1..n -> DirKinds] : n \in 0..MaxDirs} \cup {[d \in 1..(GateCap + 1) |-> OnMaster]}

\* cmd.CombinedOutput()
gitBranchContains(dir) ==
  IF dir.err = "notrepo" THEN [out |-> <<NotARepo, NL>>, err |-> TRUE]
  ELSE IF dir.err = "other" THEN [out |-> <<OtherError, NL>>, err |-> TRUE]
  ELSE [out |-> (IF dir.head THEN <<NoBranchLine, NL>> ELSE <<>>)
                  \o (IF MasterLine \in dir.branches THEN <<MasterLine, NL>> ELSE <<>>),
        err |-> FALSE]

\* strings.TrimSpace: the newlines at both ends go.
RECURSIVE TrimLeft(_)
TrimLeft(s) == IF s # <<>> /\ Head(s) = NL THEN TrimLeft(Tail(s)) ELSE s
RECURSIVE TrimRight(_)
TrimRight(s) == IF s # <<>> /\ s[Len(s)] = NL THEN TrimRight(SubSeq(s, 1, Len(s) - 1)) ELSE s
TrimSpace(s) == TrimRight(TrimLeft(s))
\* strings.Split(s, "\n"): the pieces between the newlines; one empty line
\* for the empty string.
RECURSIVE SplitFrom(_, _)
SplitFrom(s, cur) ==
  IF s = <<>> THEN <<cur>>
  ELSE IF Head(s) = NL THEN <<cur>> \o SplitFrom(Tail(s), <<>>)
  ELSE SplitFrom(Tail(s), Append(cur, Head(s)))
Split(s) == SplitFrom(s, <<>>)

\* `if okToDelete || len(lines) == 0 || (len(lines) == 1 && lines[0] == "* (no branch)")`
cleanTest(okToDelete, lines) ==
  IF okToDelete \/ Len(lines) = 0 \/ (Len(lines) = 1 /\ lines[1] = <<NoBranchLine>>)
  THEN "delete" ELSE "keep"
\* The body of the goroutine after the git command: log.Fatalf for an error
\* that is not "not a git repository", else the test.
cleanReply(r) ==
  IF r.err /\ ~(\E i \in DOMAIN r.out : r.out[i] = NotARepo) THEN "fatal"
  ELSE cleanTest(r.err, Split(TrimSpace(r.out)))
cleanOne(dir) == cleanReply(gitBranchContains(dir))

InitCache ==
  /\ flagFn = "all"
  /\ input = [s \in Sides |-> <<>>]
  /\ InitRun
  /\ pair = NoPair
  /\ hdr = NoHdr
  /\ res = NoRes
  /\ tmpl = NoTmpl
  /\ drv = NoDrv
  /\ split = NoSplit
  /\ text = NoText
  /\ got = NoGot
  /\ git = NoGit
  /\ \E dirs \in DirLists :
       cache = [pc |-> "wait", dirs |-> dirs, gpc |-> [d \in DOMAIN dirs |-> "start"],
                deleted |-> {}]

InGate == {d \in DOMAIN cache.gpc : cache.gpc[d] = "check"}

\* `gate <- true` of the goroutine of directory d: blocks while the channel
\* holds GateCap values.
CacheAcquire(d) ==
  /\ proc = "run"
  /\ cache.gpc[d] = "start"
  /\ Cardinality(InGate) < GateCap
  /\ cache' = [cache EXCEPT !.gpc[d] = "check"]
  /\ UNCHANGED proc
  /\ UNCHANGED <<split, text, got, git, tmpl, drv, flagFn, input, scan, exitErr, cpc, chanOpen,
                 pend, aHeld, sizes, stdout, logs, recv, diffs, pair, hdr, res, calls>>

\* The rest of the goroutine: the git command, log.Fatalf or the test and
\* os.RemoveAll(wt), then `<-gate` and wg.Done().
CacheCheckTo(d, verdict) ==
  IF verdict = "fatal"
  THEN proc' = "fatal" /\ UNCHANGED cache
  ELSE /\ cache' = [cache EXCEPT !.gpc[d] = "done",
                                 !.deleted = IF verdict = "delete" THEN @ \cup {d} ELSE @]
       /\ UNCHANGED proc
CacheCheck(d) ==
  /\ proc = "run"
  /\ cache.gpc[d] = "check"
  /\ CacheCheckTo(d, cleanOne(cache.dirs[d]))
  /\ UNCHANGED <<split, text, got, git, tmpl, drv, flagFn, input, scan, exitErr, cpc, chanOpen,
                 pend, aHeld, sizes, stdout, logs, recv, diffs, pair, hdr, res, calls>>

\* wg.Wait() returns.
CacheReturn ==
  /\ proc = "run"
  /\ cache.pc = "wait"
  /\ \A d \in DOMAIN cache.gpc : cache.gpc[d] = "done"
  /\ cache' = [cache EXCEPT !.pc = "returned"]
  /\ UNCHANGED proc
  /\ UNCHANGED <<split, text, got, git, tmpl, drv, flagFn, input, scan, exitErr, cpc, chanOpen,
                 pend, aHeld, sizes, stdout, logs, recv, diffs, pair, hdr, res, calls>>

NextCache ==
  \/ \E d \in DOMAIN cache.gpc : CacheAcquire(d)
  \/ \E d \in DOMAIN cache.gpc : CacheCheck(d)
  \/ CacheReturn
SpecCache == InitCache /\ [][NextCache]_vars

\* ===================================================================
\* Properties
\* ===================================================================
Range(q) == {q[i] : i \in DOMAIN q}
\* Each stream names a package at most once.
UniqueNames ==
  \A s \in Sides : \A i, j \in DOMAIN input[s] : input[s][i] = input[s][j] => i = j
\* No stream holds a summary line with an unparsable size.
WellFormed == PkgX \notin Range(input["a"])
Common == Range(input["a"]) \cap Range(input["b"])
OnlyIn(s) == Range(input[s]) \ Range(input[Opp(s)])
DiffCount(n) == Cardinality({i \in DOMAIN diffs : diffs[i].name = n})
LogCount(kind, n) == Cardinality({i \in DOMAIN logs : logs[i].k = kind /\ logs[i].name = n})
\* compareFuncReaders has returned.
Returned == cpc \in {"await", "bwait", "done"}
ReportRendered == \E i \in DOMAIN stdout : stdout[i].k = "table"

\* What scanning a package's section on its own yields.
ScannedFuncs(s, n) == scanDashS(WithEOF(Section(s, n)), Sha(s), TRUE, 1, NilPkg).pkgscan.Funcs
RECURSIVE SumSizes(_)
SumDrop(F, k) == F[k].textsize + SumSizes(MapDel(F, k))
SumSizes(F) == IF DOMAIN F = {} THEN 0 ELSE SumDrop(F, CHOOSE k \in DOMAIN F : TRUE)
RECURSIVE SumOver(_, _)
SumOver(f(_), S) ==
  IF S = {} THEN 0 ELSE f(CHOOSE k \in S : TRUE) + SumOver(f, S \ {CHOOSE k \in S : TRUE})

\* Both streams hold the same packages, in whatever order.
SameNames == Range(input["a"]) = Range(input["b"])

\* C1: when both streams hold the same packages, each once, every package
\* is diffed exactly once by the time the comparison is over
\* (compareFuncReaders returned, or it gave up with log.Fatalf), and no name
\* is ever diffed twice, for every order of the packages in either stream and
\* every interleaving of the two scanners.
C1_CommonDiffedOnce ==
  (UniqueNames /\ SameNames) =>
    /\ \A n \in PkgNames : DiffCount(n) <= 1
    /\ (Returned \/ proc = "fatal") => \A n \in Common : DiffCount(n) = 1

MatchedPairs ==
  {[name |-> diffs[i].name, aFuncs |-> diffs[i].aFuncs, bFuncs |-> diffs[i].bFuncs] :
     i \in DOMAIN diffs}
ExpectedPairs ==
  {[name |-> n, aFuncs |-> ScannedFuncs("a", n), bFuncs |-> ScannedFuncs("b", n)] :
     n \in Common}
BeforeTotal(n) == SumSizes(ScannedFuncs("a", n))
AfterTotal(n) == SumSizes(ScannedFuncs("b", n))
Counted == {n \in Common : BeforeTotal(n) # 0 /\ AfterTotal(n) # 0}

\* C2: when both streams hold the same packages, each once, the comparison
\* ends by returning, and the set of matched pairs and the table's before and
\* after totals are those the set of packages determines: they depend
\* neither on the order of the packages in a stream nor on the interleaving.
C2_OrderIndependent ==
  (UniqueNames /\ SameNames /\ (Returned \/ proc = "fatal")) =>
    /\ Returned
    /\ MatchedPairs = ExpectedPairs
    /\ sizes.totbefore = SumOver(BeforeTotal, Counted)
    /\ sizes.totafter = SumOver(AfterTotal, Counted)

\* C3: a package of only one stream is not fatal: nothing is logged before
\* both streams are exhausted and the comparison never ends in log.Fatalf;
\* once compareFuncReaders has returned every matched package was diffed,
\* and each one-sided package was logged once, as deleted (before only) or
\* added (after only), and was not diffed.
C3_OneSidedNotFatal ==
  UniqueNames =>
    /\ proc # "fatal"
    /\ ~Returned => logs = <<>>
    /\ Returned =>
         /\ \A n \in Common :
              DiffCount(n) = 1 /\ LogCount("deleted", n) = 0 /\ LogCount("added", n) = 0
         /\ \A n \in OnlyIn("a") :
              DiffCount(n) = 0 /\ LogCount("deleted", n) = 1 /\ LogCount("added", n) = 0
         /\ \A n \in OnlyIn("b") :
              DiffCount(n) = 0 /\ LogCount("added", n) = 1 /\ LogCount("deleted", n) = 0
         /\ Len(logs) = Cardinality(OnlyIn("a")) + Cardinality(OnlyIn("b"))

\* C4: with finite streams and no malformed summary line the comparison
\* returns with its report printed; it returns only after both scanners have
\* closed their channels and the consumer has seen both closed.
C4_Terminates ==
  /\ [](Returned => /\ scan["a"].pc = "closed" /\ scan["b"].pc = "closed"
                    /\ ~chanOpen["a"] /\ ~chanOpen["b"])
  /\ (WellFormed ~> (Returned /\ ReportRendered))

C4_ReturnedAfterBoth ==
  /\ Returned /\ ReportRendered
  /\ Len(recv["a"]) = MaxPkgs /\ Len(recv["b"]) = MaxPkgs

\* C5: the consumer is never blocked while a scanner stands at its send: in
\* the lockstep loop, whenever the process runs, the consumer is in its loop
\* and a scanner has a package ready, one of the loop's two receives can be
\* taken.
C5_LockNeverBlockedWhileReady ==
  \A s \in Sides :
    (proc = "run" /\ cpc \in {"loop", "recvB"} /\ scan[s].pc = "send")
      => ENABLED (LockRecvA \/ LockRecvB)

\* C5 for the select loop: a package that is ready can be received.
SelectReceivesReady ==
  \A s \in Sides :
    (proc = "run" /\ cpc = "loop" /\ scan[s].pc = "send") => ENABLED RecvPkg(s)

\* C6: in every state between two iterations of the consumer, a name that
\* has been received from both streams has been diffed, and a name is
\* diffed only once received from both: the pair is diffed in the iteration
\* that receives the later of its two records.
C6_DiffedOnArrival ==
  \A n \in PkgNames :
    (n \in Range(recv["a"]) /\ n \in Range(recv["b"])) <=> DiffCount(n) >= 1

\* C6: a pair was diffed while the before scanner holds a further package.
C6_DiffedMidStream ==
  /\ Len(diffs) = 1
  /\ scan["a"].pc = "send"
  /\ cpc = "loop"

SizeEq == <<"s", "i", "z", "e", "=">>
\* A field "size=<integer>".
IsSizeField(tok) == HasPrefix(tok, SizeEq) /\ ~Atoi(TrimPrefix(tok, SizeEq)).err
HasSizeField(h) == \E i \in DOMAIN h.fields : IsSizeField(h.fields[i])

\* C8: a summary line with the keyword whose size field is missing or no
\* integer always ends in a panic: flush never returns with it.
C8_MalformedAlwaysAborts ==
  (res # NoRes /\ Contains(HeaderLine(hdr), KwSTEXT) /\ ~HasSizeField(hdr))
    => res.out \in {"check", "crash"}

\* C9: when a build exits with an error, compareFuncReaders does not return
\* from the stream that build left behind.
C9_AbortsBeforeReturn ==
  \A s \in Sides : exitErr[s] => ~Returned

Unchanged(d) ==
  {n \in (DOMAIN d.aFuncs) \cap (DOMAIN d.bFuncs) : d.aFuncs[n].bodyhash = d.bFuncs[n].bodyhash}

\* C10: for a matched pair, under every mode, no line names a function that
\* is in both packages with equal bodyhash; if every function of the pair is
\* such a function nothing is printed, the package header included; and the
\* totals handed to sizes.add are the sums of textsize over all functions of
\* the before and of the after package, those functions included.
C10_UnchangedNeverShown ==
  \A i \in DOMAIN diffs :
    /\ \A j \in DOMAIN diffs[i].lines :
         diffs[i].lines[j].k # "header" => diffs[i].lines[j].name \notin Unchanged(diffs[i])
    /\ (Unchanged(diffs[i]) = (DOMAIN diffs[i].aFuncs) \cup (DOMAIN diffs[i].bFuncs))
         => diffs[i].lines = <<>>
    /\ diffs[i].aTot = SumSizes(diffs[i].aFuncs)
    /\ diffs[i].bTot = SumSizes(diffs[i].bFuncs)

\* C10: mode all, f unchanged with a size above zero, g changed and printed.
C10_UnchangedBesideChanged ==
  /\ flagFn = "all"
  /\ Len(diffs) = 1
  /\ <<"f">> \in Unchanged(diffs[1])
  /\ diffs[1].aFuncs[<<"f">>].textsize > 0
  /\ diffs[1].lines # <<>>
InBoth(d) == (DOMAIN d.aFuncs) \cap (DOMAIN d.bFuncs)
OnlyBefore(d) == (DOMAIN d.aFuncs) \ (DOMAIN d.bFuncs)
OnlyAfter(d) == (DOMAIN d.bFuncs) \ (DOMAIN d.aFuncs)
\* How many lines of one kind the diff of d printed for the function n.
LineCount(d, kind, n) ==
  Cardinality({j \in DOMAIN d.lines : d.lines[j].k = kind /\ d.lines[j].name = n})
OneUnless(hidden) == IF hidden THEN 0 ELSE 1

\* C11: for a matched pair, every function of the before package only gets
\* one DELETED line and no INSERTED line, every function of the after
\* package only gets one INSERTED line and no DELETED line; in mode stats
\* they get neither.
C11_OneSidedClassified ==
  \A i \in DOMAIN diffs :
    /\ \A n \in OnlyBefore(diffs[i]) :
         /\ LineCount(diffs[i], "DELETED", n) = OneUnless(flagFn = "stats")
         /\ LineCount(diffs[i], "INSERTED", n) = 0
    /\ \A n \in OnlyAfter(diffs[i]) :
         /\ LineCount(diffs[i], "INSERTED", n) = OneUnless(flagFn = "stats")
         /\ LineCount(diffs[i], "DELETED", n) = 0

\* C11: a pair with a deleted and an inserted function, in a mode that prints.
C11_DeletedAndInserted ==
  /\ flagFn = "changed"
  /\ Len(diffs) = 1
  /\ OnlyBefore(diffs[1]) # {}
  /\ OnlyAfter(diffs[1]) # {}

Differs(d, n) == d.aFuncs[n].bodyhash # d.bFuncs[n].bodyhash
Smaller(d) == {n \in InBoth(d) : Differs(d, n) /\ d.bFuncs[n].textsize < d.aFuncs[n].textsize}
Bigger(d) == {n \in InBoth(d) : Differs(d, n) /\ d.bFuncs[n].textsize > d.aFuncs[n].textsize}
SameSize(d) == {n \in InBoth(d) : Differs(d, n) /\ d.bFuncs[n].textsize = d.aFuncs[n].textsize}

\* C12: a function of both packages whose body differs and whose textsize is
\* smaller after gets its size line in the modes all, changed and smaller
\* and no size line in the modes bigger and stats.
C12_SmallerPerMode ==
  \A i \in DOMAIN diffs : \A n \in Smaller(diffs[i]) :
    LineCount(diffs[i], "size", n) = OneUnless(flagFn \in {"bigger", "stats"})

\* C13: a function of both packages whose body differs and whose textsize is
\* larger after gets its size line in the modes all, changed and bigger and
\* no size line in the modes smaller and stats.
C13_BiggerPerMode ==
  \A i \in DOMAIN diffs : \A n \in Bigger(diffs[i]) :
    LineCount(diffs[i], "size", n) = OneUnless(flagFn \in {"smaller", "stats"})

\* C14: a function of both packages whose body differs at equal textsize
\* gets one "changed" line in mode all and none in the other modes, never a
\* line of another kind, and the two totals differ by what the other
\* functions make them differ.
C14_SameSizeOnlyInAll ==
  \A i \in DOMAIN diffs : \A n \in SameSize(diffs[i]) :
    /\ LineCount(diffs[i], "changed", n) = OneUnless(flagFn # "all")
    /\ LineCount(diffs[i], "size", n) = 0
    /\ LineCount(diffs[i], "DELETED", n) = 0
    /\ LineCount(diffs[i], "INSERTED", n) = 0
    /\ diffs[i].bTot - diffs[i].aTot
         = SumSizes(MapDel(diffs[i].bFuncs, n)) - SumSizes(MapDel(diffs[i].aFuncs, n))

\* C14: mode changed, a same-size change hidden beside a line that is shown.
C14_SameSizeHidden ==
  /\ flagFn = "changed"
  /\ Len(diffs) = 1
  /\ \E n \in SameSize(diffs[1]) : diffs[1].aFuncs[n].textsize > 0
  /\ diffs[1].lines # <<>>

\* C15: what the diff of a matched pair prints is either nothing or the
\* package's header followed by one or more function lines: the header
\* comes once, first, and never alone.
C15_HeaderOnceFirst ==
  \A i \in DOMAIN diffs :
    \/ diffs[i].lines = <<>>
    \/ /\ Len(diffs[i].lines) >= 2
       /\ diffs[i].lines[1] = [k |-> "header", name |-> diffs[i].name]
       /\ \A j \in 2..Len(diffs[i].lines) : diffs[i].lines[j].k # "header"

\* C15: two function lines under one header.
C15_TwoLinesOneHeader ==
  /\ Len(diffs) = 1
  /\ Len(diffs[1].lines) = 3

\* C16: sizes.add is called once per matched pair, with the sum of textsize
\* over all functions of the before package and the sum over all functions
\* of the after package, whatever the mode.
C16_OneRowPerPair ==
  /\ Len(calls) = Len(diffs)
  /\ \A i \in DOMAIN diffs :
       /\ calls[i].before = SumSizes(diffs[i].aFuncs)
       /\ calls[i].after = SumSizes(diffs[i].bFuncs)

\* C17: the row of a matched pair is labelled with the package's name as it
\* stands on the marker line after "# ", followed by ".s".
C17_LabelIsPackageName ==
  \A i \in DOMAIN diffs :
    /\ i \in DOMAIN calls
    /\ diffs[i].name \in Range(input["a"])
    /\ calls[i].name = diffs[i].name \o DotS

Accepted(c) == c.before # 0 /\ c.after # 0
AcceptedDiffers(c) == Accepted(c) /\ c.before # c.after
AcceptedCalls == {i \in DOMAIN calls : Accepted(calls[i])}
CallBefore(i) == calls[i].before
CallAfter(i) == calls[i].after
HeaderRow == [name |-> <<"f", "i", "l", "e">>]
RowOfCall(c) == Row(c.name, c.before, c.after)
\* The rows of the calls that were accepted with differing sizes, in order.
ExpectedRows ==
  [i \in 1..Len(SelectSeq(calls, AcceptedDiffers)) |->
     RowOfCall(SelectSeq(calls, AcceptedDiffers)[i])]
IsSizeRow(r) == "before" \in DOMAIN r
TableRows == sizes.w \o sizes.out

\* C18: a call of add with a zero before or after size leaves the table as
\* it was (totals, has-change flag, rows), and no row with a zero side is
\* ever in the table.
C18_ZeroSideDropped ==
  /\ [][ (calls' # calls /\ ~Accepted(calls'[Len(calls')])) => sizes' = sizes ]_vars
  /\ [](\A j \in DOMAIN TableRows :
          IsSizeRow(TableRows[j]) => TableRows[j].before # 0 /\ TableRows[j].after # 0)

\* C18: a zero-sided row came after a row that set the has-change flag.
C18_ZeroAfterChange ==
  /\ sizes.haschange
  /\ Len(calls) = 2
  /\ calls[2].before = 0 /\ calls[2].after # 0

\* C19: the two totals are the sums of the before and of the after sizes
\* over the calls with both sizes non-zero, equal ones included; the
\* has-change flag is set exactly when such a call had differing sizes, and
\* until flush the table holds, after its header, the rows of those calls
\* and no other.
C19_TotalsOverAccepted ==
  /\ sizes.totbefore = SumOver(CallBefore, AcceptedCalls)
  /\ sizes.totafter = SumOver(CallAfter, AcceptedCalls)
  /\ sizes.haschange <=> (\E i \in DOMAIN calls : AcceptedDiffers(calls[i]))
  /\ cpc = "loop" => sizes.w = <<HeaderRow>> \o ExpectedRows

\* C19: an equal non-zero row and a differing row were added.
C19_EqualBesideDiffering ==
  /\ cpc = "loop"
  /\ sizes.haschange
  /\ \E i \in DOMAIN calls : Accepted(calls[i]) /\ calls[i].before = calls[i].after

\* C20: after flush the output is, when some accepted row differed, the
\* header, the differing rows in order and one total row over all accepted
\* rows; otherwise it is the one "no ... size changes" line.
C20_FlushOutput ==
  cpc = "done" =>
    IF ExpectedRows # <<>>
    THEN sizes.out = <<HeaderRow>> \o ExpectedRows
                       \o << Row(<<"t", "o", "t", "a", "l">>,
                                 SumOver(CallBefore, AcceptedCalls),
                                 SumOver(CallAfter, AcceptedCalls)) >>
    ELSE sizes.out = << [name |-> <<"n", "o">>, desc |-> Binary] >>

\* C20: flushed with a differing and an equal row accepted.
C20_FlushedWithTotal ==
  /\ cpc = "done"
  /\ sizes.haschange
  /\ \E i \in DOMAIN calls : Accepted(calls[i]) /\ calls[i].before = calls[i].after

\* The before and after values a size row was printed from: those of the
\* call that added it, or the two totals for the total row.
IsTotalRow(r) == r.name = <<"t", "o", "t", "a", "l">>
RowSource(r) ==
  IF IsTotalRow(r) THEN r.before = sizes.totbefore /\ r.after = sizes.totafter
  ELSE \E i \in DOMAIN calls :
         calls[i].name = r.name /\ calls[i].before = r.before /\ calls[i].after = r.after
Abs(n) == IF n < 0 THEN 0 - n ELSE n

\* C21: every size row of the table, the total row included, shows the
\* before and after values it was made from, the delta after - before with
\* its sign, and a finite percentage equal to 100 * after / before - 100,
\* printed in thousandths no further than half a thousandth from it.
C21_RowDeltaAndPercent ==
  \A j \in DOMAIN TableRows :
    IsSizeRow(TableRows[j]) =>
      /\ RowSource(TableRows[j])
      /\ TableRows[j].delta = TableRows[j].after - TableRows[j].before
      /\ TableRows[j].pct.fin /\ TableRows[j].before > 0
      /\ TableRows[j].pct.num * TableRows[j].before
           = (100 * TableRows[j].after - 100 * TableRows[j].before) * TableRows[j].pct.den
      /\ 2 * Abs(TableRows[j].pct.milli * TableRows[j].before
                  - 1000 * (100 * TableRows[j].after - 100 * TableRows[j].before))
           <= TableRows[j].before

\* C21: the table was flushed with a shrinking row, a growing row and a
\* total row that differs from both.
C21_SignedRowsAndTotal ==
  /\ cpc = "done"
  /\ \E j \in DOMAIN sizes.out : IsSizeRow(sizes.out[j]) /\ sizes.out[j].delta < 0
  /\ \E j \in DOMAIN sizes.out : IsSizeRow(sizes.out[j]) /\ sizes.out[j].delta > 0
  /\ \E j \in DOMAIN sizes.out :
       /\ IsSizeRow(sizes.out[j]) /\ IsTotalRow(sizes.out[j])
       /\ sizes.out[j].pct.milli \notin {0, 100000, 0 - 50000}

\* One fixed order of a set of keys, and what the diff of the pair prints
\* when both `range`s take it.
FixedOrder(S) == CHOOSE o \in Orders(S) : TRUE
FixedLines(a, b) ==
  diffPair(a, b, flagFn, FixedOrder(DOMAIN a.Funcs), FixedOrder(LeftInAfter(a, b))).lines

\* C22: what the diff of a matched pair prints is determined by the two
\* packages and the mode: every run over the same pair prints the lines of
\* the run whose loops take the fixed order, in the same order.
C22_OutputDetermined ==
  \A i \in DOMAIN diffs : diffs[i].lines = FixedLines(pair.a, pair.b)

\* The first tokens of the summary lines a section holds after its marker
\* line, and the last of those lines.
IsSummary(b) == Len(b) > 0 /\ b[1] # TAB
SummaryNames(sec) ==
  {GoSlice(sec[i], 0, Index(sec[i], <<SP>>)) : i \in {j \in 2..Len(sec) : IsSummary(sec[j])}}
LastSummary(sec) == sec[CHOOSE j \in 2..Len(sec) :
                          IsSummary(sec[j]) /\ \A k \in (j + 1)..Len(sec) : ~IsSummary(sec[k])]
LastName(sec) == GoSlice(LastSummary(sec), 0, Index(LastSummary(sec), <<SP>>))
\* The package a scanner is to emit next.
NextName(s) == input[s][Len(recv[s]) + 1]

\* C23: a scanner standing at its send holds the next package of its stream
\* with every function of that package's section, the last one included,
\* also when the section is the last of the stream and only the synthetic
\* marker follows it; a scanner closes its channel only when every package
\* of the stream, the last included, has been sent and received; and what is
\* received is the stream's packages in order, never a package named by the
\* synthetic marker.
C23_LastPackageEmitted ==
  \A s \in Sides :
    /\ scan[s].pc = "send" =>
         /\ Len(recv[s]) < Len(input[s])
         /\ scan[s].pkgscan.Name = NextName(s)
         /\ DOMAIN scan[s].pkgscan.Funcs = SummaryNames(Section(s, NextName(s)))
         /\ LastName(Section(s, NextName(s))) \in DOMAIN scan[s].pkgscan.Funcs
    /\ scan[s].pc = "closed" => recv[s] = input[s]
    /\ \A i \in DOMAIN recv[s] :
         /\ i \in DOMAIN input[s]
         /\ recv[s][i] = input[s][i]
         /\ recv[s][i] # GoSlice(EOFMarker, 2, Len(EOFMarker))

\* C23: the before scanner stands at its send with the last package of a
\* stream of two, with both of its functions, at the synthetic marker line.
C23_LastPackageAtSend ==
  /\ Len(input["a"]) = 2
  /\ Len(recv["a"]) = 1
  /\ scan["a"].pc = "send"
  /\ scan["a"].pos = Len(Text("a"))
  /\ Cardinality(DOMAIN scan["a"].pkgscan.Funcs) = 2

\* flush returned with a function stored.
Stored == res.out = "ok" /\ DOMAIN res.s.Funcs # {}
\* The integer of the header's first size field.
FirstSizeField(h) == h.fields[CHOOSE i \in DOMAIN h.fields :
                                 IsSizeField(h.fields[i])
                                 /\ \A j \in 1..(i - 1) : ~IsSizeField(h.fields[j])]
SizeOf(h) == Atoi(TrimPrefix(FirstSizeField(h), SizeEq)).n

\* C24: flush stores a function only for a summary line that contains the
\* keyword and a size field; for a line without the keyword it returns with
\* nothing stored; and for every line with the keyword and a size field it
\* returns with one function stored, under the line's first token, with the
\* integer of the size field as its textsize.
C24_RecordIffQualifies ==
  res # NoRes =>
    /\ Stored => (Contains(HeaderLine(hdr), KwSTEXT) /\ HasSizeField(hdr))
    /\ ~Contains(HeaderLine(hdr), KwSTEXT) => (res.out = "ok" /\ ~Stored)
    /\ (Contains(HeaderLine(hdr), KwSTEXT) /\ HasSizeField(hdr)) =>
         /\ Stored
         /\ DOMAIN res.s.Funcs = {hdr.name}
         /\ res.s.Funcs[hdr.name].textsize = SizeOf(hdr)

\* C27: for every summary line with the keyword and a size field, whatever
\* other fields it carries and wherever the size field stands, last in the
\* line included, extractNameAndSize returns the line's first token as the
\* name and the integer of the size field as the size.
C27_ExtractsNameAndSize ==
  (res # NoRes /\ Contains(HeaderLine(hdr), KwSTEXT) /\ HasSizeField(hdr)) =>
    /\ extractNameAndSize(HeaderLine(hdr)).out = "ok"
    /\ extractNameAndSize(HeaderLine(hdr)).name = hdr.name
    /\ extractNameAndSize(HeaderLine(hdr)).size = SizeOf(hdr)

\* C27 for the lines whose size field is followed by a space and is the
\* first field that starts with "size=".
SizeFieldFollowed(h) ==
  /\ h.trail \/ ~IsSizeField(h.fields[Len(h.fields)])
  /\ \A i \in DOMAIN h.fields : HasPrefix(h.fields[i], SizeEq) => IsSizeField(h.fields[i])
ExtractsWhenFollowed ==
  (res # NoRes /\ Contains(HeaderLine(hdr), KwSTEXT) /\ HasSizeField(hdr)
     /\ SizeFieldFollowed(hdr)) =>
    /\ extractNameAndSize(HeaderLine(hdr)).out = "ok"
    /\ extractNameAndSize(HeaderLine(hdr)).name = hdr.name
    /\ extractNameAndSize(HeaderLine(hdr)).size = SizeOf(hdr)

\* The function a printed line is about: the name found in the two maps
\* that gives the line's name once the qualifier is removed.
LineAbout(d, l) ==
  {n \in (DOMAIN d.aFuncs) \cup (DOMAIN d.bFuncs) : TrimPrefix(n, AnonPrefix) = l.name}

\* C28: every function line of a diff, of whatever kind, shows the name of
\* a function of the pair with the qualifier `"".` removed: no line shows a
\* name that starts with it.
C28_QualifierStripped ==
  \A i \in DOMAIN diffs : \A j \in DOMAIN diffs[i].lines :
    diffs[i].lines[j].k # "header" =>
      /\ ~HasPrefix(diffs[i].lines[j].name, AnonPrefix)
      /\ LineAbout(diffs[i], diffs[i].lines[j]) # {}

F == <<"f">>
\* The Go indexes at which the pieces "TOKEN" of an instruction line put
\* build s's sha: one after the TAB for each piece before, two for a token.
RECURSIVE PieceOffset(_, _)
PieceOffset(ps, i) ==
  IF i = 1 THEN 1
  ELSE PieceOffset(ps, i - 1) + (IF ps[i - 1] = Token THEN 2 ELSE 1)
Placed(ps) == {PieceOffset(ps, i) : i \in {j \in DOMAIN ps : ps[j] = Token}}
\* The two bodies are the same but for each build's sha at the same places.
SameButToken(t) ==
  /\ Placed(t.ins) # {}
  /\ \A i \in DOMAIN t.noise : t.noise[i].a = t.noise[i].b
\* Build s's sha stands in its body at those places and nowhere else.
NoStrayToken(t, s) == IndexHits(InsLine(t.ins, s), Sha(s)) = Placed(t.ins)
Scanned == ~pair.a.nil /\ ~pair.b.nil
SameHash == pair.a.Funcs[F].bodyhash = pair.b.Funcs[F].bodyhash
NotReported == \A i \in DOMAIN diffs : diffs[i].lines = <<>>

\* C25 as stated: two bodies that are the same but for each build's own sha
\* at the same places get equal bodyhash, and the function is not reported.
C25_TokenNormalised ==
  (Scanned /\ SameButToken(tmpl)) => (SameHash /\ NotReported)

\* C25, amended: two bodies that are the same but for each build's own sha
\* at the same places, and that hold their build's sha nowhere else, get
\* equal bodyhash (the hash of the body with the sha replaced by "SHA"), and
\* the function is not reported.
C25_TokenNormalisedNoStray ==
  (Scanned /\ SameButToken(tmpl) /\ NoStrayToken(tmpl, "a") /\ NoStrayToken(tmpl, "b")) =>
    /\ SameHash
    /\ pair.a.Funcs[F].bodyhash[1] = <<TAB>> \o ExpandPieces(tmpl.ins, ShaPlaceholder)
    /\ NotReported

\* C25: the pair was diffed for a body with the sha twice and other bytes
\* between.
C25_TwoTokensDiffed ==
  /\ Len(diffs) = 1
  /\ tmpl.ins = <<Token, "b", Token>>
  /\ tmpl.noise # <<>>
  /\ SameButToken(tmpl)
  /\ NoStrayToken(tmpl, "a") /\ NoStrayToken(tmpl, "b")

\* The two bodies have the same instruction line, with no sha in it, and
\* differ in a dump line or in a relocation line.
DiffersOnlyInNoise(t) ==
  /\ IndexHits(InsLine(t.ins, "a"), Sha("a")) = {}
  /\ IndexHits(InsLine(t.ins, "b"), Sha("b")) = {}
  /\ InsLine(t.ins, "a") = InsLine(t.ins, "b")
  /\ \E i \in DOMAIN t.noise : t.noise[i].a # t.noise[i].b

\* C26: two bodies that differ only in dump lines or in relocation lines
\* get equal bodyhash, from scanDashS and from parseDashSPackage alike, and
\* the function is not reported.
C26_NoiseExcluded ==
  (Scanned /\ DiffersOnlyInNoise(tmpl)) =>
    /\ SameHash
    /\ parseDashSPackageHash(<<>>, Body(tmpl, "a")) = parseDashSPackageHash(<<>>, Body(tmpl, "b"))
    /\ NotReported

\* The runs of bench in the comparison main is in, and the runs that -n n
\* asks for in comparison c: n + 1 times the before build and then the
\* after build, recorded from the second time on.
InCurrent(r) == r.cmp = Len(drv.compares)
CurrentRuns == SelectSeq(drv.runs, InCurrent)
ExpectedRuns(n, c) ==
  [j \in 1..(2 * (n + 1)) |->
     [cmp |-> c, side |-> IF j % 2 = 1 THEN "a" ELSE "b", iter |-> (j - 1) \div 2,
      record |-> (j - 1) \div 2 # 0]]
Recorded(s) == Cardinality({j \in DOMAIN CurrentRuns :
                              CurrentRuns[j].side = s /\ CurrentRuns[j].iter # 0})

\* C29: with -n N, N > 0, the runs of a comparison are at every moment the
\* first runs of: N + 1 iterations, each the before benchmark and then the
\* after benchmark; each commit's file holds the output of the runs made in
\* the iterations after the first, in order, and nothing of the first; and
\* when the loop is left all N + 1 iterations were run and each file holds
\* the output of exactly N runs.
C29_WarmupThenCounted ==
  (drv.count > 0 /\ drv.compares # <<>>) =>
    /\ Len(CurrentRuns) <= 2 * (drv.count + 1)
    /\ CurrentRuns = SubSeq(ExpectedRuns(drv.count, Len(drv.compares)), 1, Len(CurrentRuns))
    /\ \A s \in Sides : drv.tmp[s] = [j \in 1..Recorded(s) |-> j]
    /\ drv.pc = "rest" =>
         /\ Len(CurrentRuns) = 2 * (drv.count + 1)
         /\ \A s \in Sides : Len(drv.tmp[s]) = drv.count

\* C29: -n 2, the loop of the second comparison of -each was left.
C29_LoopLeft ==
  /\ drv.count = 2
  /\ drv.pc = "rest"
  /\ Len(drv.compares) = 2
  /\ Len(drv.runs) = 12

Linear(p) == \A c \in DOMAIN p : p[c] = {c - 1}
\* What -each is to compare once main is done: before to after, then every
\* commit between them against a parent of its own, no commit before one of
\* its ancestors, the first of them against the before ref.
EachCompared(p, cs) ==
  /\ cs # <<>>
  /\ cs[1] = [before |-> BeforeRef, after |-> AfterRef(p)]
  /\ Len(cs) = 1 + Cardinality(RevSet(p))
  /\ {cs[j].after : j \in 2..Len(cs)} = RevSet(p)
  /\ \A j \in 2..Len(cs) : cs[j].before \in p[cs[j].after]
  /\ \A i, j \in 2..Len(cs) : i < j => cs[j].after \notin Ancestors(p, cs[i].after)
  /\ Len(cs) >= 2 => cs[2].before = BeforeRef

\* C30: with -each and k commits between the two refs, main is done after
\* the comparison of before to after and k more, one per commit, each
\* against its parent, oldest first, the oldest against the before ref.
C30_EachAgainstParent ==
  (drv.pc = "done" /\ drv.each) => EachCompared(drv.par, drv.compares)

\* C30 when every commit has the commit before it as its one parent.
EachLinear ==
  (drv.pc = "done" /\ drv.each /\ Linear(drv.par)) => EachCompared(drv.par, drv.compares)

\* The Go index of the last '/' of a name (-1 without one), the part after
\* it, and the Go index of the first '.' after it.
SlashAt(in) == IF \E i \in DOMAIN in : in[i] = "/"
               THEN (CHOOSE i \in DOMAIN in : in[i] = "/" /\ \A j \in (i + 1)..Len(in) : in[j] # "/") - 1
               ELSE -1
AfterSlash(in) == SubSeq(in, SlashAt(in) + 2, Len(in))
HasSpecial(in) == \E i \in DOMAIN AfterSlash(in) : AfterSlash(in)[i] \in {"(", ")", "*"}
HasDot(in) == \E i \in DOMAIN AfterSlash(in) : AfterSlash(in)[i] = "."
DotAt(in) == (CHOOSE i \in (SlashAt(in) + 2)..Len(in) :
                in[i] = "." /\ \A j \in (SlashAt(in) + 2)..(i - 1) : in[j] # ".") - 1

\* C31: when the part after the last '/' holds none of '(', ')', '*' and
\* holds a '.', pkg is what stands before the first such '.', fnname what
\* stands after it, and pkg + "." + fnname is the input; when that part
\* holds one of those characters no dot is taken out: pkg is what stands
\* before the last '/', fnname the rest, and without a '/' pkg is empty and
\* fnname the whole input.
C31_SplitAtFirstDot ==
  split.pc = "out" =>
    /\ (~HasSpecial(split.in) /\ HasDot(split.in)) =>
         /\ split.pkg = GoSlice(split.in, 0, DotAt(split.in))
         /\ split.fnname = GoSlice(split.in, DotAt(split.in) + 1, Len(split.in))
         /\ split.pkg \o <<".">> \o split.fnname = split.in
    /\ HasSpecial(split.in) =>
         /\ split.pkg \o split.fnname = split.in
         /\ SlashAt(split.in) >= 0 => split.pkg = GoSlice(split.in, 0, SlashAt(split.in))
         /\ SlashAt(split.in) < 0 => (split.pkg = <<>> /\ split.fnname = split.in)

\* C31: "a/a.a" was split into "a/a" and "a", as in the test's first case.
C31_SplitDone ==
  /\ split.pc = "out"
  /\ split.in = <<"a", "/", "a", ".", "a">>
  /\ split.pkg = <<"a", "/", "a">>
  /\ split.fnname = <<"a">>


\* C38: with sizes that are never negative, whenever haschange is set both
\* totals are above zero, so the percentage of the total row flush prints is
\* taken over a before total that is not zero.
C38_ChangeHasTotals ==
  /\ sizes.haschange => (sizes.totbefore > 0 /\ sizes.totafter > 0)
  /\ (cpc = "done" /\ sizes.haschange) =>
       /\ IsTotalRow(sizes.out[Len(sizes.out)])
       /\ sizes.out[Len(sizes.out)].pct.den > 0
       /\ sizes.out[Len(sizes.out)].pct.fin

\* C38: a table was flushed after adds of which one had a zero size and one
\* changed a size.
C38_FlushedAfterZeroAdd ==
  /\ cpc = "done"
  /\ sizes.haschange
  /\ \E i \in DOMAIN calls : calls[i].before = 0 /\ calls[i].after > 0
  /\ \E i \in DOMAIN calls : calls[i].before > 0 /\ calls[i].after = 0


\* The iteration that receives a record from side s.
Arrives(s) == Len(recv'[s]) = Len(recv[s]) + 1
\* The last diff was made of the records b (before) and a (after).
DiffedAs(b, a) ==
  /\ Len(diffs') = Len(diffs) + 1
  /\ diffs'[Len(diffs')].name = b.Name
  /\ diffs'[Len(diffs')].bname = a.Name
  /\ diffs'[Len(diffs')].aFuncs = b.Funcs
  /\ diffs'[Len(diffs')].bFuncs = a.Funcs

PendingDisjoint == DOMAIN pend["a"] \cap DOMAIN pend["b"] = {}

\* C32: between two iterations of the consumer no name is a key of both
\* pending maps, and an arriving record whose name the opposite pending map holds removes
\* that entry, is not stored, and is diffed with it as (before, after)
\* whichever side arrived; any other arriving record is stored in the pending
\* map of its side and nothing is diffed.
C32_MatchOrStore ==
  /\ []PendingDisjoint
  /\ [][ \A s \in Sides : Arrives(s) =>
           IF scan[s].pkgscan.Name \in DOMAIN pend[Opp(s)]
           THEN /\ pend'[Opp(s)] = MapDel(pend[Opp(s)], scan[s].pkgscan.Name)
                /\ pend'[s] = pend[s]
                /\ IF s = "a"
                   THEN DiffedAs(scan[s].pkgscan, pend["b"][scan[s].pkgscan.Name])
                   ELSE DiffedAs(pend["a"][scan[s].pkgscan.Name], scan[s].pkgscan)
           ELSE /\ pend'[s] = MapPut(pend[s], scan[s].pkgscan.Name, scan[s].pkgscan)
                /\ pend'[Opp(s)] = pend[Opp(s)]
                /\ diffs' = diffs ]_vars

\* C32: the after record of p arrived third, after a stored after record of
\* another package and the stored before record of p, and was diffed.
C32_AfterArrivedLast ==
  /\ Len(diffs) = 1
  /\ diffs[1].nrecv = 3
  /\ diffs[1].name = PkgP
  /\ recv["a"] = <<PkgP>>
  /\ Len(recv["b"]) = 2
  /\ recv["b"][2] = PkgP
  /\ DOMAIN pend["b"] = {recv["b"][1]}
  /\ DOMAIN pend["a"] = {}


Logged(kind, n) == \E i \in DOMAIN logs : logs[i] = [k |-> kind, name |-> n]

\* C36: a record that arrives once the opposite stream has signalled its end
\* is diffed when the opposite pending map holds its name, and only
\* otherwise is it left pending; what is pending when the comparison returns
\* has been reported as one-sided.
C36_LateRecordMatched ==
  /\ [][ \A s \in Sides : (Arrives(s) /\ ~chanOpen[Opp(s)]) =>
           IF scan[s].pkgscan.Name \in DOMAIN pend[Opp(s)]
           THEN /\ Len(diffs') = Len(diffs) + 1
                /\ diffs'[Len(diffs')].name = scan[s].pkgscan.Name
                /\ scan[s].pkgscan.Name \notin DOMAIN pend'[s]
                /\ scan[s].pkgscan.Name \notin DOMAIN pend'[Opp(s)]
           ELSE /\ diffs' = diffs
                /\ scan[s].pkgscan.Name \in DOMAIN pend'[s] ]_vars
  /\ [](Returned =>
          /\ \A n \in DOMAIN pend["a"] : Logged("deleted", n)
          /\ \A n \in DOMAIN pend["b"] : Logged("added", n))

\* C36: the before record of p was diffed after the after stream had ended,
\* and a later before record was reported as deleted.
C36_DiffedAfterOtherEnd ==
  /\ Returned
  /\ Len(diffs) = 1
  /\ ~diffs[1].open["b"]
  /\ diffs[1].open["a"]
  /\ DOMAIN pend["a"] # {}


\* C33: the function map of a record that was handed over is never modified
\* again: after a diff the after record's map is what the scanner handed
\* over.
C33_FuncsKeptAfterHandOver ==
  \A i \in DOMAIN diffs : diffs[i].bLeft = diffs[i].bFuncs


\* C35: every record the consumer received is a member of one diffed pair
\* or is held in a pending map, and every record still pending when the
\* comparison returns is reported as one-sided; none is dropped or
\* overwritten, repeated names included.
C35_RecordsConserved ==
  /\ Len(recv["a"]) + Len(recv["b"])
       = 2 * Len(diffs) + Cardinality(DOMAIN pend["a"]) + Cardinality(DOMAIN pend["b"])
  /\ Returned => Len(recv["a"]) + Len(recv["b"]) = 2 * Len(diffs) + Len(logs)

\* The same when no stream repeats a name.
ConservedWhenUnique == UniqueNames => C35_RecordsConserved


\* A package line, the positions of the package lines of the text, the k-th
\* of them, and the last line before the package line after it.
IsMarkerLine(b) == Len(b) >= 2 /\ b[1] = "#" /\ b[2] = SP
MarkerPos == {i \in DOMAIN text.lines : IsMarkerLine(text.lines[i])}
NMarkers == Cardinality(MarkerPos)
MarkerAt(k) == CHOOSE i \in MarkerPos : Cardinality({j \in MarkerPos : j <= i}) = k
SegEnd(k) == IF k < NMarkers THEN MarkerAt(k + 1) - 1 ELSE Len(text.lines)
\* The summary lines of functions between the k-th package line and the next.
FuncLinesOf(k) ==
  {j \in (MarkerAt(k) + 1)..SegEnd(k) :
     IsSummary(text.lines[j]) /\ Contains(text.lines[j], KwSTEXT)}
HeaderName(b) == SubSeq(b, 1, (CHOOSE i \in DOMAIN b : b[i] = SP /\ \A j \in 1..(i - 1) : b[j] # SP) - 1)

\* C37: what the consumer has received is, in order, one record for each of
\* the first package lines of the text, the k-th named by the k-th package
\* line and holding the functions of the lines between that line and the
\* next package line, so that lines before the first package line are in no
\* record; and the scanner closes its channel only once the record of the
\* last package line has been received.
C37_OneRecordPerMarker ==
  /\ Len(got.pkgs) <= NMarkers
  /\ \A k \in DOMAIN got.pkgs :
       /\ got.pkgs[k].Name = SubSeq(text.lines[MarkerAt(k)], 3, Len(text.lines[MarkerAt(k)]))
       /\ DOMAIN got.pkgs[k].Funcs = {HeaderName(text.lines[j]) : j \in FuncLinesOf(k)}
  /\ (scan["a"].pc = "closed" \/ got.closed) => Len(got.pkgs) = NMarkers

\* C37: a function line, the line of package qq, the line of package p and a
\* function line: the channel was closed after two records, qq without a
\* function and then p with g.
C37_TwoRecordsThenClosed ==
  /\ got.closed
  /\ text.lines = << SummaryLine(<<"f">>, <<"1">>), PkgLine(PkgQ), PkgLine(PkgP),
                     SummaryLine(<<"g">>, <<"2">>) >>
  /\ Len(got.pkgs) = 2
  /\ got.pkgs[1].Name = PkgQ
  /\ got.pkgs[2].Name = PkgP
  /\ DOMAIN got.pkgs[2].Funcs = {<<"g">>}


\* The last line of the body of the function whose summary line is line j:
\* the line before the next line that is neither empty nor indented.
BodyEnd(j) ==
  IF \E i \in (j + 1)..Len(text.lines) : IsSummary(text.lines[i])
  THEN (CHOOSE i \in (j + 1)..Len(text.lines) :
          IsSummary(text.lines[i]) /\ \A m \in (j + 1)..(i - 1) : ~IsSummary(text.lines[m])) - 1
  ELSE Len(text.lines)
NotEmpty(b) == b # <<>>
Indented(j) == SelectSeq(SubSeq(text.lines, j + 1, BodyEnd(j)), NotEmpty)
\* Those lines as they are written to the digest.
BodyOf(j) == [i \in DOMAIN Indented(j) |-> ReplaceAll(Indented(j)[i], Sha("a"), ShaPlaceholder)]
\* The summary line that is the last of its function's name in its package.
LastOfName(k, j) ==
  \A m \in FuncLinesOf(k) : HeaderName(text.lines[m]) = HeaderName(text.lines[j]) => m <= j

\* C34: the hash stored for a function of a received record is the digest
\* of exactly the indented lines between the function's summary line and the
\* next line that is not indented (a header or a package line), empty lines
\* left out: no line after another header, of another function or before
\* the summary line is in it, nor the summary line itself.
C34_HashOfOwnBody ==
  \A k \in DOMAIN got.pkgs : \A j \in FuncLinesOf(k) :
    LastOfName(k, j) =>
      got.pkgs[k].Funcs[HeaderName(text.lines[j])].bodyhash = HashSum(BodyOf(j))

\* C34: f with an empty line and then a body line holding the sha: the
\* record was received with f hashed over that one line.
C34_HashedAcrossEmptyLine ==
  /\ Len(got.pkgs) = 1
  /\ text.lines = << PkgLine(PkgP), SummaryLine(<<"f">>, <<"1">>), <<>>, BodyLine(Sha("a")) >>
  /\ ~text.guarded
  /\ got.pkgs[1].Funcs[<<"f">>].bodyhash = << <<TAB>> \o ShaPlaceholder >>


\* Every resolve after the start returned what the ref named at the start.
ResolveLocked ==
  /\ \A r \in DOMAIN git.resolved : git.resolved[r] = git.atStart[r]
  /\ \A i \in DOMAIN git.work : git.work[i].sha = git.atStart[git.work[i].ref]

\* C39: every later resolve of a ref returns the commit recorded at the
\* start, and the directory checked out and compared for a ref holds that
\* commit, also when the ref was moved in between.
C39_ResolutionLocked ==
  /\ ResolveLocked
  /\ \A i \in DOMAIN git.work : git.trees[git.work[i].dir] = git.atStart[git.work[i].ref]


\* No more than GateCap checks run at once.
GateKept == Cardinality(InGate) <= GateCap
\* What has to go: a partially initialized directory, or one whose commit no
\* branch contains.
Unreachable(dir) == dir.err = "notrepo" \/ (dir.err = "none" /\ dir.branches = {})

\* C40: a directory whose check is done has been deleted exactly when it is
\* partially initialized or no branch contains its commit, so one on a
\* branch is kept and one with an empty listing is deleted; and no more than
\* 10 checks run at once.
C40_DeletesUnreachable ==
  /\ \A d \in DOMAIN cache.gpc :
       cache.gpc[d] = "done" => (d \in cache.deleted <=> Unreachable(cache.dirs[d]))
  /\ GateKept
\* What is deleted is never on a branch.
DeletedNotOnBranch ==
  \A d \in cache.deleted : cache.dirs[d].err = "notrepo" \/ cache.dirs[d].branches = {}
====
